---- MODULE Spec2Model ----
(***************************************************************************)
(* Model of the media bot's adapters: the Reddit token manager and fetch   *)
(* protocol (services/reddit.py), the album batcher (utils/chunk.py,       *)
(* utils/telegram_media.py), the per-platform asset extractors             *)
(* (services/reddit.py, services/twitter.py, services/tiktok.py) and the   *)
(* Telegram message-link handler (services/telegram_fetcher.py,            *)
(* handlers/telegram.py), the post-id resolver of the Reddit downloader,   *)
(* the link filters and the dispatcher (handlers/tiktok.py,                *)
(* handlers/twitter.py, main.py) and the fetchers' handling of upstream    *)
(* errors.                                                                 *)
(***************************************************************************)
EXTENDS Integers, Sequences, FiniteSets, TLC

VARIABLES
    \* ---- RedditDownloader, shared by all pipelines ----
    creds,          \* _credentials_ready(): all five settings present
    access_token,   \* self._access_token (NoToken models None)
    token_expiry,   \* self._token_expiry
    lockHolder,     \* self._token_lock: the pipeline holding it, NoProc if free
    lockWaiters,    \* self._token_lock: FIFO of suspended acquirers
    now,            \* time.time()
    minted,         \* number of token exchanges answered successfully so far
    fetchCount,     \* number of _fetch_new_token calls issued so far
    \* ---- one fetch pipeline (fetch_asset) per process ----
    pc,             \* position of each pipeline
    force,          \* force_refresh of the _get_access_token call in progress
    tok,            \* token returned by the pipeline's last _get_access_token
    reqs,           \* data requests (client.get) issued by the pipeline
    n401,           \* data requests of the pipeline answered 401
    outcome,        \* how fetch_asset/_request_with_token ended
    sawEmpty,       \* first _get_access_token entered with nothing cached
    peers,          \* pipelines inside such a call when this one entered
    exch1,          \* exchanges issued by the pipeline's first _get_access_token
    tok1,           \* token returned by the pipeline's first _get_access_token
    reply,          \* the token endpoint's answer the pipeline has received and
                    \* not yet looked at
    via,            \* how the pipeline's _get_access_token in progress returned
    shared,         \* token of the exchange that completed while the pipeline
                    \* was suspended on the lock in _get_access_token
    \* ---- send_photo_album ----
    album,          \* state of one send_photo_album call
    \* ---- asset extractors ----
    ex,             \* state of one extractor call
    \* ---- Telegram link handler ----
    tg              \* state of one update going through TelegramLinkFilter
                    \* and handle_telegram_link

tokenVars == <<creds, access_token, token_expiry, lockHolder, lockWaiters, now,
               minted, fetchCount, pc, force, tok, reqs, n401, outcome,
               sawEmpty, peers, exch1, tok1, reply, via, shared>>
vars == <<tokenVars, album, ex, tg>>

\* ------------------------------------------------------------------ bounds
NumProcs == 2
MaxTime == 2
MaxPhotos == 21
MaxItems == 3
MaxGallery == 5
MaxVariants == 3
MaxSegments == 3

\* --------------------------------------------------------------- constants
NoToken == 0
NoProc == 0
TOKEN_SAFETY_WINDOW == 30
DEFAULT_EXPIRES_IN == 3600
CHUNK_SIZE == 10

Procs == 1..NumProcs

\* expires_in values the token endpoint may declare
Lifetimes == {0, 30, 31, 32, 3600}

\* reddit.py:152-161: the settings _credentials_ready looks at
Settings == {"client_id", "client_secret", "username", "password", "token_url"}

\* status classes of the data API: 2xx, 401, another 4xx, 5xx
Statuses == {200, 401, 404, 500}

Max(a, b) == IF a >= b THEN a ELSE b

Idle == [k |-> "idle"]

\* None, where the code passes an optional string
None == "<None>"

\* ============================================================ payloads
\* Upstream payloads are loose JSON values.  A string is the sequence of its
\* pieces: "https:", "//", a host, a path, a suffix, "?q", " " (white space) ...
\* so that strip, startswith, endswith, split("?") and `in` act on it as in Python.
\* A map keeps its pairs in insertion order.
JNull == [t |-> "null"]
JNum(n) == [t |-> "num", n |-> n]
JStr(s) == [t |-> "str", s |-> s]
JList(xs) == [t |-> "list", xs |-> xs]
JMap(kv) == [t |-> "map", kv |-> kv]

IsNull(v) == v.t = "null"
IsNum(v) == v.t = "num"
IsStr(v) == v.t = "str"
IsList(v) == v.t = "list"
IsMap(v) == v.t = "map"

\* Python truth value: None, 0, "", [] and {} are false
Truthy(v) ==
    CASE IsNull(v) -> FALSE
      [] IsNum(v) -> v.n # 0
      [] IsStr(v) -> v.s # <<>>
      [] IsList(v) -> v.xs # <<>>
      [] IsMap(v) -> v.kv # <<>>

\* `a or b`
Or(a, b) == IF Truthy(a) THEN a ELSE b

\* dict.get(key)
Get(m, key) ==
    LET hit == {i \in 1..Len(m.kv) : m.kv[i][1] = key}
    IN  IF hit = {} THEN JNull ELSE m.kv[CHOOSE i \in hit : TRUE][2]

\* list(dict.keys()), each key a one-piece string
Keys(m) == [i \in 1..Len(m.kv) |-> JStr(<<m.kv[i][1]>>)]

\* value.get(key) where the code does not test the type first: only a dict has .get
SafeGet(v, key) == IF IsMap(v) THEN Get(v, key) ELSE JNull

\* outcome of a step that may raise
Ok(v) == [r |-> "ok", v |-> v]
Raise(e) == [r |-> "raise", e |-> e]

\* a map from its present fields: pairs whose value is Absent are left out
Absent == [t |-> "absent"]
Obj(pairs) == JMap(SelectSeq(pairs, LAMBDA kv : kv[2] # Absent))

\* ================================================================ token
\* _credentials_ready with the token endpoint left out of the test
CredentialsReadyNoEndpoint == Settings \ {"token_url"} \subseteq creds

\* reddit.py:152-161: all(...) over the five settings
CredentialsReady == Settings \subseteq creds

\* response.raise_for_status(): reddit.py:173 runs it outside the try block of
\* 165-171, reddit.py:221 inside the try block of 218-223
RaiseForStatus(s) == IF s \in 200..299 THEN "ok" ELSE "HTTPStatusError"

\* ---- the token endpoint
\* the expires_in field of the answer: left out, null, a word, a numeral, numbers
\* stands for 2^1024, the first integer that time.time() + <int> cannot take:
\* the sum of line 205 raises OverflowError from this lifetime on
FloatRange == 100000

ExpiresInFields ==
    {Absent, JNull, JStr(<<"soon">>), JStr(<<"31">>), JNum(FloatRange)}
    \cup {JNum(n) : n \in Lifetimes}

\* the access_token field of the answer: left out, null, empty, a number, a token
AccessTokenFields == {Absent, JNull, JStr(<<>>), JNum(1), JStr(<<"token">>)}

TokenBody(access_token_field, expires_in_field) ==
    Obj(<<<<"access_token", access_token_field>>, <<"expires_in", expires_in_field>>>>)

\* client.post raises httpx.HTTPError, or answers with a status and a body
\* that response.json() decodes or rejects with ValueError
TokenReplies ==
    {[k |-> "HTTPError"]}
    \cup {[k |-> "response", status |-> 500, json |-> Raise("ValueError")]}
    \cup {[k |-> "response", status |-> 200, json |-> j] :
             j \in {Raise("ValueError"), Ok(JList(<<>>)), Ok(JNull)}
                   \cup {Ok(TokenBody(JStr(<<"token">>), e)) : e \in ExpiresInFields}
                   \cup {Ok(TokenBody(t, Absent)) : t \in AccessTokenFields}}

NoReply == [k |-> "none"]

\* dict.get(key, default)
GetDefault(m, key, default) ==
    IF \E i \in 1..Len(m.kv) : m.kv[i][1] = key THEN Get(m, key) ELSE default

\* int(value) on a decoded JSON value
IntOf(v) ==
    CASE IsNum(v) -> Ok(v.n)
      [] IsStr(v) -> IF v.s = <<"31">> THEN Ok(31) ELSE Raise("ValueError")
      [] OTHER -> Raise("TypeError")

\* reddit.py:208-238: _fetch_new_token on the endpoint's answer
FetchNewToken(r) ==
    IF r.k = "HTTPError" THEN Raise("RedditDownloadError")
    ELSE IF RaiseForStatus(r.status) # "ok" THEN Raise("RedditDownloadError")
    ELSE IF r.json.r = "raise" THEN Raise("RedditDownloadError")
    ELSE LET payload == r.json.v
         IN  IF ~IsMap(payload) THEN Raise("AttributeError")
             ELSE LET token == Get(payload, "access_token")
                      expires_in == GetDefault(payload, "expires_in", JNum(DEFAULT_EXPIRES_IN))
                  IN  IF ~IsStr(token) \/ ~Truthy(token)
                      THEN Raise("RedditDownloadError")
                      ELSE Ok([token |-> token,
                               expires_int |-> IF IntOf(expires_in).r = "ok"
                                               THEN IntOf(expires_in).v
                                               ELSE DEFAULT_EXPIRES_IN])

\* ---- the cache and its lock
\* the validity test of a manager without the lock-free path
CachedValidNever == FALSE

\* reddit.py:195 / 199: `self._access_token and time.time() < self._token_expiry`
CachedValid == access_token # NoToken /\ now < token_expiry

\* the expiry without the floor at zero
ExpiryNoFloor(t, expires_in) == t + expires_in - TOKEN_SAFETY_WINDOW

\* reddit.py:205: time.time() + max(int(expires_in) - safety_window, 0)
ExpiryFor(t, expires_in) == t + Max(expires_in - TOKEN_SAFETY_WINDOW, 0)

\* asyncio.Lock.release(): the first waiter is woken and nobody can overtake it
ReleasedHolder == IF lockWaiters = <<>> THEN NoProc ELSE Head(lockWaiters)
ReleasedWaiters == IF lockWaiters = <<>> THEN <<>> ELSE Tail(lockWaiters)

\* pipelines currently inside a first, unforced _get_access_token that found
\* nothing cached on entry
InFirstGet(q) == pc[q] \in {"lockwait", "fetch", "fetched"} /\ ~force[q] /\ sawEmpty[q] /\ reqs[q] = 0

TokenInit ==
    /\ creds \in SUBSET Settings
    /\ access_token = NoToken
    /\ token_expiry = 0
    /\ lockHolder = NoProc
    /\ lockWaiters = <<>>
    /\ now = 0
    /\ minted = 0
    /\ fetchCount = 0
    /\ pc = [p \in Procs |-> "idle"]
    /\ force = [p \in Procs |-> FALSE]
    /\ tok = [p \in Procs |-> NoToken]
    /\ reqs = [p \in Procs |-> 0]
    /\ n401 = [p \in Procs |-> 0]
    /\ outcome = [p \in Procs |-> "none"]
    /\ sawEmpty = [p \in Procs |-> FALSE]
    /\ peers = [p \in Procs |-> {}]
    /\ exch1 = [p \in Procs |-> 0]
    /\ tok1 = [p \in Procs |-> NoToken]
    /\ reply = [p \in Procs |-> NoReply]
    /\ via = [p \in Procs |-> "none"]
    /\ shared = [p \in Procs |-> NoToken]

\* fetch_asset -> _request_with_token -> _authorized_get -> _get_access_token(False),
\* run up to its first suspension point
StartFetch(p) ==
    /\ pc[p] = "idle"
    /\ UNCHANGED <<creds, access_token, token_expiry, now, minted, n401, reply,
                   shared, album, ex, tg>>
    /\ IF ~CredentialsReady
       THEN \* reddit.py:64-65: RedditDownloadError with the message that the
            \* credentials are missing
            /\ pc' = [pc EXCEPT ![p] = "done"]
            /\ outcome' = [outcome EXCEPT ![p] = "CredentialsMissing"]
            /\ UNCHANGED <<lockHolder, lockWaiters, fetchCount, force, tok, reqs,
                           sawEmpty, peers, exch1, tok1, via>>
       ELSE IF CachedValid
       THEN \* reddit.py:195-196, then client.get (reddit.py:189)
            /\ pc' = [pc EXCEPT ![p] = "request"]
            /\ via' = [via EXCEPT ![p] = "fast"]
            /\ tok' = [tok EXCEPT ![p] = access_token]
            /\ tok1' = [tok1 EXCEPT ![p] = access_token]
            /\ reqs' = [reqs EXCEPT ![p] = 1]
            /\ outcome' = outcome
            /\ UNCHANGED <<lockHolder, lockWaiters, fetchCount, force, sawEmpty,
                           peers, exch1>>
       ELSE /\ sawEmpty' = [sawEmpty EXCEPT ![p] = (access_token = NoToken)]
            /\ peers' = [peers EXCEPT ![p] =
                            IF access_token = NoToken
                            THEN {q \in Procs \ {p} : InFirstGet(q)} ELSE {}]
            /\ force' = [force EXCEPT ![p] = FALSE]
            /\ UNCHANGED <<tok, tok1, reqs, outcome, via>>
            /\ IF lockHolder = NoProc
               THEN \* lock taken without suspending; reddit.py:199 fails as 195 did
                    /\ lockHolder' = p
                    /\ pc' = [pc EXCEPT ![p] = "fetch"]
                    /\ fetchCount' = fetchCount + 1
                    /\ exch1' = [exch1 EXCEPT ![p] = 1]
                    /\ UNCHANGED lockWaiters
               ELSE /\ lockWaiters' = Append(lockWaiters, p)
                    /\ pc' = [pc EXCEPT ![p] = "lockwait"]
                    /\ UNCHANGED <<lockHolder, fetchCount, exch1>>

\* the suspended `async with self._token_lock` of _get_access_token resumes
\* (reddit.py:198-202)
LockGranted(p) ==
    /\ pc[p] = "lockwait"
    /\ lockHolder = p
    /\ UNCHANGED <<creds, access_token, token_expiry, now, minted, n401, outcome,
                   force, sawEmpty, peers, reply, shared, album, ex, tg>>
    /\ IF ~force[p] /\ CachedValid
       THEN \* reddit.py:199-200, lock released on the way out
            /\ via' = [via EXCEPT ![p] = "cached"]
            /\ lockHolder' = ReleasedHolder
            /\ lockWaiters' = ReleasedWaiters
            /\ tok' = [tok EXCEPT ![p] = access_token]
            /\ tok1' = [tok1 EXCEPT ![p] = access_token]
            /\ pc' = [pc EXCEPT ![p] = "request"]
            /\ reqs' = [reqs EXCEPT ![p] = @ + 1]
            /\ UNCHANGED <<fetchCount, exch1>>
       ELSE \* reddit.py:202
            /\ pc' = [pc EXCEPT ![p] = "fetch"]
            /\ fetchCount' = fetchCount + 1
            /\ exch1' = [exch1 EXCEPT ![p] = IF force[p] THEN @ ELSE @ + 1]
            /\ UNCHANGED <<lockHolder, lockWaiters, tok, tok1, reqs, via>>

\* client.post of _fetch_new_token ends (reddit.py:219-221): the pipeline is
\* suspended once more, in the exit of `async with httpx.AsyncClient`
TokenReply(p, r) ==
    /\ pc[p] = "fetch"
    /\ pc' = [pc EXCEPT ![p] = "fetched"]
    /\ reply' = [reply EXCEPT ![p] = r]
    /\ UNCHANGED <<creds, access_token, token_expiry, lockHolder, lockWaiters, now,
                   minted, fetchCount, force, tok, tok1, reqs, n401, outcome,
                   sawEmpty, peers, exch1, via, shared, album, ex, tg>>

\* an exchange whose return value is read from the cache after the lock went
\* to a waiting _invalidate_token
FetchOkReadsCacheLate(p) ==
    /\ pc[p] = "fetched"
    /\ FetchNewToken(reply[p]).r = "ok"
    /\ FetchNewToken(reply[p]).v.expires_int < FloatRange
    /\ reply' = [reply EXCEPT ![p] = NoReply]
    /\ via' = [via EXCEPT ![p] = "exchange"]
    /\ shared' = [q \in Procs |-> IF pc[q] = "lockwait" THEN minted + 1 ELSE shared[q]]
    /\ minted' = minted + 1
    /\ access_token' = minted + 1
    /\ token_expiry' = ExpiryFor(now, FetchNewToken(reply[p]).v.expires_int)
    /\ lockHolder' = ReleasedHolder
    /\ lockWaiters' = ReleasedWaiters
    /\ tok' = [tok EXCEPT ![p] = IF lockWaiters # <<>> /\ pc[Head(lockWaiters)] = "invalwait"
                              THEN NoToken ELSE minted + 1]
    /\ tok1' = [tok1 EXCEPT ![p] = IF force[p] THEN @ ELSE minted + 1]
    /\ pc' = [pc EXCEPT ![p] = "request"]
    /\ reqs' = [reqs EXCEPT ![p] = @ + 1]
    /\ UNCHANGED <<creds, now, fetchCount, force, n401, outcome, sawEmpty, peers,
                   exch1, album, ex, tg>>

\* _fetch_new_token returns a token and a lifetime (reddit.py:225-238), the
\* cache is written (reddit.py:202-206), the lock is released and
\* _authorized_get issues the data request (reddit.py:189).  The token string
\* of the answer is new: it is numbered minted + 1.
FetchOk(p) ==
    /\ pc[p] = "fetched"
    /\ FetchNewToken(reply[p]).r = "ok"
    /\ FetchNewToken(reply[p]).v.expires_int < FloatRange
    /\ reply' = [reply EXCEPT ![p] = NoReply]
    /\ via' = [via EXCEPT ![p] = "exchange"]
    /\ shared' = [q \in Procs |-> IF pc[q] = "lockwait" THEN minted + 1 ELSE shared[q]]
    /\ minted' = minted + 1
    /\ access_token' = minted + 1
    /\ token_expiry' = ExpiryFor(now, FetchNewToken(reply[p]).v.expires_int)
    /\ lockHolder' = ReleasedHolder
    /\ lockWaiters' = ReleasedWaiters
    /\ tok' = [tok EXCEPT ![p] = minted + 1]
    /\ tok1' = [tok1 EXCEPT ![p] = IF force[p] THEN @ ELSE minted + 1]
    /\ pc' = [pc EXCEPT ![p] = "request"]
    /\ reqs' = [reqs EXCEPT ![p] = @ + 1]
    /\ UNCHANGED <<creds, now, fetchCount, force, n401, outcome, sawEmpty, peers,
                   exch1, album, ex, tg>>

\* _fetch_new_token returns a token and a lifetime beyond the float range:
\* the token is cached (reddit.py:204), the sum of line 205 raises
\* OverflowError before the expiry is written, the lock is released by
\* `async with` and the exception leaves _request_with_token
FetchOverflow(p) ==
    /\ pc[p] = "fetched"
    /\ FetchNewToken(reply[p]).r = "ok"
    /\ FetchNewToken(reply[p]).v.expires_int >= FloatRange
    /\ reply' = [reply EXCEPT ![p] = NoReply]
    /\ via' = [via EXCEPT ![p] = "failed"]
    /\ minted' = minted + 1
    /\ access_token' = minted + 1
    /\ lockHolder' = ReleasedHolder
    /\ lockWaiters' = ReleasedWaiters
    /\ pc' = [pc EXCEPT ![p] = "done"]
    /\ outcome' = [outcome EXCEPT ![p] = "OverflowError"]
    /\ UNCHANGED <<creds, token_expiry, now, fetchCount, force, tok, tok1, reqs,
                   n401, sawEmpty, peers, exch1, shared, album, ex, tg>>

\* _fetch_new_token raises (reddit.py:222-233); the lock is released by
\* `async with` and the exception leaves _request_with_token, whose except
\* clause only takes httpx.HTTPError
FetchFail(p) ==
    /\ pc[p] = "fetched"
    /\ FetchNewToken(reply[p]).r = "raise"
    /\ reply' = [reply EXCEPT ![p] = NoReply]
    /\ via' = [via EXCEPT ![p] = "failed"]
    /\ lockHolder' = ReleasedHolder
    /\ lockWaiters' = ReleasedWaiters
    /\ pc' = [pc EXCEPT ![p] = "done"]
    /\ outcome' = [outcome EXCEPT ![p] = FetchNewToken(reply[p]).e]
    /\ UNCHANGED <<creds, access_token, token_expiry, now, minted, fetchCount,
                   force, tok, tok1, reqs, n401, sawEmpty, peers, exch1, shared,
                   album, ex, tg>>

\* client.get raises httpx.HTTPError (reddit.py:170-171)
RequestNetworkError(p) ==
    /\ pc[p] = "request"
    /\ pc' = [pc EXCEPT ![p] = "done"]
    /\ outcome' = [outcome EXCEPT ![p] = "RedditDownloadError"]
    /\ UNCHANGED <<creds, access_token, token_expiry, lockHolder, lockWaiters, now,
                   minted, fetchCount, force, tok, tok1, reqs, n401, sawEmpty,
                   peers, exch1, reply, via, shared, album, ex, tg>>

\* an _invalidate_token that resets the expiry and keeps the token
InvalidatedExpiryOnly == [access_token |-> access_token, token_expiry |-> 0]

\* reddit.py:242-243: what _invalidate_token leaves in the cache
Invalidated == [access_token |-> NoToken, token_expiry |-> 0]

\* the same step with an _invalidate_token that does not take the lock
Response401FirstUnlocked(p) ==
    /\ pc[p] = "request"
    /\ reqs[p] = 1
    /\ n401' = [n401 EXCEPT ![p] = @ + 1]
    /\ force' = [force EXCEPT ![p] = TRUE]
    /\ via' = [via EXCEPT ![p] = "none"]
    /\ access_token' = NoToken
    /\ token_expiry' = 0
    /\ UNCHANGED <<creds, now, minted, tok, tok1, reqs, outcome, sawEmpty, peers,
                   exch1, reply, shared, album, ex, tg>>
    /\ IF lockHolder = NoProc
       THEN /\ lockHolder' = p
            /\ pc' = [pc EXCEPT ![p] = "fetch"]
            /\ fetchCount' = fetchCount + 1
            /\ UNCHANGED lockWaiters
       ELSE /\ lockWaiters' = Append(lockWaiters, p)
            /\ pc' = [pc EXCEPT ![p] = "lockwait"]
            /\ UNCHANGED <<lockHolder, fetchCount>>

\* the data API answers the first request with 401: _invalidate_token, then
\* _authorized_get(force_refresh=True), up to the next suspension point
\* (reddit.py:167-169, 240-243, 191-202)
Response401First(p) ==
    /\ pc[p] = "request"
    /\ reqs[p] = 1
    /\ n401' = [n401 EXCEPT ![p] = @ + 1]
    /\ force' = [force EXCEPT ![p] = TRUE]
    /\ via' = [via EXCEPT ![p] = "none"]
    /\ UNCHANGED <<creds, now, minted, tok, tok1, reqs, outcome, sawEmpty, peers,
                   exch1, reply, shared, album, ex, tg>>
    /\ IF lockHolder = NoProc
       THEN /\ access_token' = Invalidated.access_token
            /\ token_expiry' = Invalidated.token_expiry
            /\ lockHolder' = p
            /\ pc' = [pc EXCEPT ![p] = "fetch"]
            /\ fetchCount' = fetchCount + 1
            /\ UNCHANGED lockWaiters
       ELSE /\ lockWaiters' = Append(lockWaiters, p)
            /\ pc' = [pc EXCEPT ![p] = "invalwait"]
            /\ UNCHANGED <<access_token, token_expiry, lockHolder, fetchCount>>

\* the suspended `async with self._token_lock` of _invalidate_token resumes
\* (reddit.py:241-243), then _get_access_token(force_refresh=True) asks for the
\* lock again, behind the waiters already queued
InvalidateGranted(p) ==
    /\ pc[p] = "invalwait"
    /\ lockHolder = p
    /\ access_token' = Invalidated.access_token
    /\ token_expiry' = Invalidated.token_expiry
    /\ shared' = [shared EXCEPT ![p] = NoToken]
    /\ UNCHANGED <<creds, now, minted, force, tok, tok1, reqs, n401, outcome,
                   sawEmpty, peers, exch1, reply, via, album, ex, tg>>
    /\ IF lockWaiters = <<>>
       THEN /\ pc' = [pc EXCEPT ![p] = "fetch"]
            /\ fetchCount' = fetchCount + 1
            /\ UNCHANGED <<lockHolder, lockWaiters>>
       ELSE /\ lockHolder' = Head(lockWaiters)
            /\ lockWaiters' = Append(Tail(lockWaiters), p)
            /\ pc' = [pc EXCEPT ![p] = "lockwait"]
            /\ UNCHANGED fetchCount

\* any other answer, or any answer to the retry: reddit.py:173-174
ResponseFinal(p, s) ==
    /\ pc[p] = "request"
    /\ ~(s = 401 /\ reqs[p] = 1)
    /\ n401' = [n401 EXCEPT ![p] = IF s = 401 THEN @ + 1 ELSE @]
    /\ pc' = [pc EXCEPT ![p] = "done"]
    /\ outcome' = [outcome EXCEPT ![p] = RaiseForStatus(s)]
    /\ UNCHANGED <<creds, access_token, token_expiry, lockHolder, lockWaiters, now,
                   minted, fetchCount, force, tok, tok1, reqs, sawEmpty, peers,
                   exch1, reply, via, shared, album, ex, tg>>

\* the wall clock advances
Tick ==
    /\ now < MaxTime
    /\ now' = now + 1
    /\ UNCHANGED <<creds, access_token, token_expiry, lockHolder, lockWaiters,
                   minted, fetchCount, pc, force, tok, tok1, reqs, n401, outcome,
                   sawEmpty, peers, exch1, reply, via, shared, album, ex, tg>>

Init == TokenInit /\ album = Idle /\ ex = Idle /\ tg = Idle

Next ==
    \/ \E p \in Procs : StartFetch(p)
    \/ \E p \in Procs : LockGranted(p)
    \/ \E p \in Procs, r \in TokenReplies : TokenReply(p, r)
    \/ \E p \in Procs : FetchOk(p)
    \/ \E p \in Procs : FetchFail(p)
    \/ \E p \in Procs : FetchOverflow(p)
    \/ \E p \in Procs : RequestNetworkError(p)
    \/ \E p \in Procs : Response401First(p)
    \/ \E p \in Procs : InvalidateGranted(p)
    \/ \E p \in Procs, s \in Statuses : ResponseFinal(p, s)
    \/ Tick

Spec == Init /\ [][Next]_vars

\* C1: when nothing is cached and two pipelines are inside an unforced
\* _get_access_token at the same time, the two calls together issue exactly one
\* token exchange and both return the token it produced.
C1_SingleExchange ==
    \A p \in Procs : \A q \in peers[p] :
        (tok1[p] # NoToken /\ tok1[q] # NoToken)
            => (exch1[p] + exch1[q] = 1 /\ tok1[p] = tok1[q])

\* C2: a pipeline whose data request and whose forced-refresh retry were both
\* answered 401 ends with the typed RedditDownloadError after exactly two data
\* requests.
C2_Second401Typed ==
    \A p \in Procs :
        (pc[p] = "done" /\ n401[p] = 2)
            => (outcome[p] = "RedditDownloadError" /\ reqs[p] = 2)

\* the retry protocol itself: at most two data requests, the second one only
\* after a 401 and with a token obtained by a forced refresh
C2_RetryOnce ==
    \A p \in Procs : reqs[p] <= 2 /\ (reqs[p] = 2 => (n401[p] >= 1 /\ force[p]))
\* ---- C13
\* C13: a pipeline that was suspended on the lock inside _get_access_token,
\* forced or not, while another pipeline's exchange completed, returns the
\* token of that exchange and issues no exchange of its own.
C13_WaitersShareRefresh ==
    [][\A p \in Procs :
          (pc[p] = "lockwait" /\ shared[p] # NoToken /\ pc'[p] # "lockwait")
              => (pc'[p] = "request" /\ tok'[p] = shared[p] /\ fetchCount' = fetchCount)]_vars

\* ---- C14
\* a token exchange of the pipeline is in flight
InFlight(p) == pc[p] \in {"fetch", "fetched"}

\* C14: in every interleaving at most one token exchange is in flight, and
\* the cached token and its expiry are only written by a pipeline that holds
\* _token_lock (already, or taken without suspension in the same step).
C14_OneExchangeWritesLocked ==
    /\ [](\A p, q \in Procs : (InFlight(p) /\ InFlight(q)) => p = q)
    /\ [][(access_token' # access_token \/ token_expiry' # token_expiry)
            => \E p \in Procs :
                   /\ pc'[p] # pc[p]
                   /\ lockHolder = p \/ (lockHolder = NoProc /\ lockWaiters = <<>>)]_vars

\* an exchange has written the cache, another one is in flight and the other
\* pipeline is suspended on the lock
C14_Witness ==
    \E p, q \in Procs :
        /\ pc[p] = "fetched"
        /\ pc[q] \in {"lockwait", "invalwait"}
        /\ minted >= 1

DeclaredLifetime(r) ==
    LET fields == r.json.v.kv
        at == {i \in 1..Len(fields) : fields[i][1] = "expires_in"}
        field == fields[CHOOSE i \in at : TRUE][2]
    IN  IF at = {} THEN 3600
        ELSE IF field.t = "num" THEN field.n
        ELSE IF field = JStr(<<"31">>) THEN 31
        ELSE 3600

C17_TypedTokenErrors ==
    \A p \in Procs :
        (pc[p] = "done" /\ via[p] = "failed") => outcome[p] = "RedditDownloadError"

\* ---- C18
\* C18: when one of the five settings is missing, a pipeline ends at once with
\* the credentials-missing error, no exchange and no data request is ever
\* issued, and that error is raised in no other situation.
C18_CredentialsFirst ==
    /\ ~(Settings \subseteq creds) =>
           /\ fetchCount = 0
           /\ \A p \in Procs :
                  /\ pc[p] \in {"idle", "done"}
                  /\ reqs[p] = 0
                  /\ pc[p] = "done" => outcome[p] = "CredentialsMissing"
    /\ \A p \in Procs : outcome[p] = "CredentialsMissing" => ~(Settings \subseteq creds)

\* only the token endpoint is missing and a pipeline has been turned away
C18_Witness ==
    /\ creds = Settings \ {"token_url"}
    /\ \E p \in Procs : pc[p] = "done" /\ outcome[p] = "CredentialsMissing"

\* ---- C19
\* C19: _invalidate_token, run by a pipeline that holds the lock, leaves the
\* cache without token and with expiry 0 whatever it held; and while the cache
\* is without token, an unforced _get_access_token never returns a cached
\* value: it starts an exchange, or waits for the lock and then starts one
\* unless an exchange has completed meanwhile.
C19_InvalidateClears ==
    [][\A p \in Procs :
          /\ (\/ pc[p] = "invalwait" /\ pc'[p] # "invalwait"
              \/ pc[p] = "request" /\ pc'[p] = "fetch")
                => (/\ access_token' = NoToken
                    /\ token_expiry' = 0
                    /\ lockHolder = p \/ (lockHolder = NoProc /\ lockWaiters = <<>>))
          /\ (access_token = NoToken /\ ~force[p] /\ pc[p] = "idle" /\ pc'[p] \notin {"idle", "done"})
                => (\/ pc'[p] = "fetch" /\ fetchCount' = fetchCount + 1
                    \/ pc'[p] = "lockwait")
          /\ (access_token = NoToken /\ ~force[p] /\ pc[p] = "lockwait" /\ pc'[p] # "lockwait")
                => (pc'[p] = "fetch" /\ fetchCount' = fetchCount + 1)]_vars

\* a token was cached and then invalidated after a 401, and the other
\* pipeline's unforced call is doing an exchange of its own
C19_Witness ==
    \E p, q \in Procs :
        /\ n401[p] >= 1 /\ minted >= 1 /\ access_token = NoToken
        /\ q # p /\ pc[q] = "fetch" /\ ~force[q] /\ reqs[q] = 0

\* C28: a _get_access_token call that returns normally returns a token, never
\* None, whatever _invalidate_token calls run beside it: the token a pipeline
\* sends with a data request is the one the call returned.
C28_ReturnsToken ==
    \A p \in Procs : pc[p] = "request" => tok[p] # NoToken

\* a pipeline got its token from an exchange while the other waited for the
\* lock in _invalidate_token, which now holds the lock
C28_Witness ==
    \E p \in Procs, q \in Procs :
        /\ p # q
        /\ pc[p] = "request" /\ via[p] = "exchange" /\ tok[p] # NoToken
        /\ pc[q] = "invalwait" /\ lockHolder = q

\* the lock is held by a pipeline that is about to take a step with it, and
\* the pipelines queued for it are exactly those suspended on it
LockLive ==
    /\ lockHolder # NoProc => pc[lockHolder] \in {"lockwait", "fetch", "fetched", "invalwait"}
    /\ lockHolder = NoProc => lockWaiters = <<>>
    /\ \A q \in Procs :
           /\ pc[q] \in {"lockwait", "invalwait"} =>
                  (lockHolder = q \/ \E i \in 1..Len(lockWaiters) : lockWaiters[i] = q)
           /\ (\E i \in 1..Len(lockWaiters) : lockWaiters[i] = q) =>
                  (pc[q] \in {"lockwait", "invalwait"} /\ lockHolder # q)

\* the step in which the exchange of pipeline p fails
FailedExchange(p) == pc[p] = "fetched" /\ pc'[p] = "done"

\* while a pipeline holds the lock for an exchange, the cache changes only by
\* the write of its own successful exchange; a failing exchange leaves token
\* and expiry as they are and hands the lock to the first waiter, or frees it
ExchangeKeepsCache ==
    \A p \in Procs :
        /\ (pc[p] \in {"fetch", "fetched"} /\ ~(pc[p] = "fetched" /\ pc'[p] = "request")) =>
               (access_token' = access_token /\ token_expiry' = token_expiry)
        /\ FailedExchange(p) =>
               /\ lockHolder' = (IF lockWaiters = <<>> THEN NoProc ELSE Head(lockWaiters))
               /\ lockWaiters' = (IF lockWaiters = <<>> THEN <<>> ELSE Tail(lockWaiters))
               /\ lockHolder' # p

\* C29: a token exchange that fails inside _get_access_token leaves the cached
\* token and expiry as they were and releases _token_lock, so the callers
\* waiting on the lock and later callers can proceed.
C29_FailedExchangeReleases == []LockLive /\ [][ExchangeKeepsCache]_vars

\* the step in which the _invalidate_token of pipeline p, called for the 401
\* that answered the request sent with tok[p], clears the cache
InvalidationBy(p) ==
    /\ \/ pc[p] = "request" /\ pc'[p] = "fetch"
       \/ pc[p] = "invalwait" /\ pc'[p] # "invalwait"
    /\ access_token # NoToken
    /\ access_token' = NoToken

\* C30: an invalidation triggered by a 401 on token T discards only T: the
\* token it clears from the cache is the one the rejected request was sent
\* with, never a newer token cached by another pipeline's refresh.
C30_InvalidateOnlyRejectedToken ==
    [][\A p \in Procs : InvalidationBy(p) => access_token = tok[p]]_vars

\* ================================================================ album
\* a pipeline of the token manager that never starts
TokenIdle == TokenInit /\ creds = Settings

\* chunk.py:16-24: the loop over `sequence` with its `bucket`
RECURSIVE ChunkedFrom(_, _, _, _)
ChunkedFrom(sequence, size, i, bucket) ==
    IF i > Len(sequence)
    THEN IF bucket # <<>> THEN <<bucket>> ELSE <<>>
    ELSE LET b == Append(bucket, sequence[i])
         IN  IF Len(b) = size
             THEN <<b>> \o ChunkedFrom(sequence, size, i + 1, <<>>)
             ELSE ChunkedFrom(sequence, size, i + 1, b)

\* the generator with the bucket test off by one (`len(bucket) > size`)
ChunkedOversize(sequence, size) == ChunkedFrom(sequence, size + 1, 1, <<>>)

\* chunk.py:10-24 (size is positive at every call site)
Chunked(sequence, size) == ChunkedFrom(sequence, size, 1, <<>>)

\* telegram_media.py:56-66: answer_photo for one file, else a media group whose
\* first item alone carries the pending caption
BatchOf(downloaded, caption_pending) ==
    IF Len(downloaded) = 1
    THEN [via |-> "answer_photo",
          items |-> <<[media |-> downloaded[1], caption |-> caption_pending]>>]
    ELSE [via |-> "answer_media_group",
          items |-> [idx \in 1..Len(downloaded) |->
                        [media |-> downloaded[idx],
                         caption |-> IF idx = 1 THEN caption_pending ELSE None]]]

AlbumInit ==
    album = [k |-> "idle", photos |-> <<>>, caption |-> None,
             caption_pending |-> None, sequence |-> 1, chunks |-> <<>>, ci |-> 1,
             downloaded |-> <<>>, sent |-> <<>>, err |-> None]

\* send_photo_album(message, photos, caption), telegram_media.py:31-41
AlbumCall(n, c) ==
    /\ album.k = "idle"
    /\ LET photos == [i \in 1..n |-> i]
       IN  album' =
             IF photos = <<>>
             THEN [album EXCEPT !.k = "raised", !.err = "error_cls", !.caption = c]
             ELSE [album EXCEPT !.k = "downloading", !.photos = photos,
                                !.caption = c, !.caption_pending = c,
                                !.chunks = Chunked(photos, CHUNK_SIZE)]
    /\ UNCHANGED <<tokenVars, ex, tg>>

\* _download_photo returns a file (telegram_media.py:43-54, 71-94)
AlbumDownloadOk ==
    /\ album.k = "downloading"
    /\ LET chunk == album.chunks[album.ci]
           got == Append(album.downloaded, chunk[Len(album.downloaded) + 1])
       IN  album' = [album EXCEPT !.downloaded = got,
                                  !.sequence = @ + 1,
                                  !.k = IF Len(got) = Len(chunk)
                                        THEN "sending" ELSE "downloading"]
    /\ UNCHANGED <<tokenVars, ex, tg>>

\* a failing download that still delivers what was downloaded of the batch
AlbumDownloadFailSendsPartial ==
    /\ album.k = "downloading"
    /\ album' = [album EXCEPT
                    !.k = "raised", !.err = "error_cls",
                    !.sent = IF album.downloaded = <<>> THEN @
                             ELSE Append(@, BatchOf(album.downloaded, album.caption_pending))]
    /\ UNCHANGED <<tokenVars, ex, tg>>

\* _download_photo raises error_cls (telegram_media.py:80-86)
AlbumDownloadFail ==
    /\ album.k = "downloading"
    /\ album' = [album EXCEPT !.k = "raised", !.err = "error_cls"]
    /\ UNCHANGED <<tokenVars, ex, tg>>

\* the batch is delivered (telegram_media.py:56-68) and the loop goes on
AlbumSendOk ==
    /\ album.k = "sending"
    /\ album' = [album EXCEPT
                    !.sent = Append(@, BatchOf(album.downloaded, album.caption_pending)),
                    !.caption_pending = None,
                    !.downloaded = <<>>,
                    !.ci = @ + 1,
                    !.k = IF album.ci = Len(album.chunks) THEN "done" ELSE "downloading"]
    /\ UNCHANGED <<tokenVars, ex, tg>>

\* answer_photo / answer_media_group raises (telegram_media.py:57, 66)
AlbumSendFail ==
    /\ album.k = "sending"
    /\ album' = [album EXCEPT !.k = "raised", !.err = "TelegramError"]
    /\ UNCHANGED <<tokenVars, ex, tg>>

AlbumNext ==
    \/ \E n \in 0..MaxPhotos, c \in {None, "caption"} : AlbumCall(n, c)
    \/ AlbumDownloadOk
    \/ AlbumDownloadFail
    \/ AlbumSendOk
    \/ AlbumSendFail

InitAlbum == TokenIdle /\ AlbumInit /\ ex = Idle /\ tg = Idle

SpecAlbum == InitAlbum /\ [][AlbumNext]_vars

RECURSIVE Flatten(_)
Flatten(batches) ==
    IF batches = <<>> THEN <<>>
    ELSE [i \in 1..Len(batches[1].items) |-> batches[1].items[i].media]
             \o Flatten(Tail(batches))

CeilDiv(n, d) == (n + d - 1) \div d

RECURSIVE FirstChunks(_, _)
FirstChunks(chunks, n) ==
    IF n = 0 THEN <<>> ELSE FirstChunks(chunks, n - 1) \o chunks[n]

\* what is downloaded and delivered at every moment of a call: the batches
\* delivered are the first ci - 1 batches in list order, the photos
\* downloaded since are the first photos of batch ci in list order, and
\* sequence counts the downloads
AlbumInOrder ==
    album.k \in {"downloading", "sending", "done"} \/ (album.k = "raised" /\ album.photos # <<>>) =>
        /\ Len(album.sent) = album.ci - 1
        /\ Flatten(album.sent) = FirstChunks(album.chunks, album.ci - 1)
        /\ album.k # "done" =>
               /\ Len(album.downloaded) <= Len(album.chunks[album.ci])
               /\ album.downloaded = SubSeq(album.chunks[album.ci], 1, Len(album.downloaded))
        /\ album.sequence = Len(Flatten(album.sent)) + Len(album.downloaded) + 1

\* one step of a call: one photo more is downloaded, the next one in list
\* order; a batch is delivered only when all its photos are downloaded;
\* after an error nothing is downloaded or delivered any more
AlbumStepInOrder ==
    /\ album'.downloaded # album.downloaded /\ album'.downloaded # <<>> =>
           album'.downloaded = Append(album.downloaded, album.sequence)
    /\ album'.sent # album.sent =>
           /\ album.downloaded = album.chunks[album.ci]
           /\ album'.sent = Append(album.sent, BatchOf(album.chunks[album.ci], album.caption_pending))
    /\ album.k = "raised" => album' = album

\* C27: within send_photo_album the photos are downloaded one at a time in
\* list order; batch k is sent only after all its photos are downloaded and
\* the batches before it were sent; when a download of batch k fails the
\* typed error is raised, the batches before k stay delivered and neither
\* batch k nor a later batch is sent.
C27_DownloadThenSendInOrder == []AlbumInOrder /\ [][AlbumStepInOrder]_vars

\* a download of the second batch fails after one photo of it was downloaded:
\* the first batch is delivered, nothing else
C27_Witness ==
    /\ album.k = "raised" /\ album.err = "error_cls"
    /\ Len(album.sent) = 1
    /\ Len(album.downloaded) = 1
    /\ Len(album.photos) = CHUNK_SIZE + 2

\* ======================================================= payload helpers
\* `for x in value` with value truthy: a list gives its items, a dict its keys,
\* a string its characters (a string standing where a list is expected is made
\* of one-character pieces), a number raises TypeError
Iterate(v) ==
    CASE IsList(v) -> Ok(v.xs)
      [] IsStr(v) -> Ok([i \in 1..Len(v.s) |-> JStr(<<v.s[i]>>)])
      [] IsMap(v) -> Ok([i \in 1..Len(v.kv) |-> JStr(<<v.kv[i][1]>>)])
      [] OTHER -> Raise("TypeError")

\* `for x in (value or [])`
IterateOrEmpty(v) == IF Truthy(v) THEN Iterate(v) ELSE Ok(<<>>)

\* ------------------------------------------------------------- strings
WhiteSpace == " "

RECURSIVE LStrip(_)
LStrip(s) == IF s # <<>> /\ Head(s) = WhiteSpace THEN LStrip(Tail(s)) ELSE s

RECURSIVE RStrip(_)
RStrip(s) ==
    IF s # <<>> /\ s[Len(s)] = WhiteSpace THEN RStrip(SubSeq(s, 1, Len(s) - 1)) ELSE s

\* str.strip()
Strip(s) == RStrip(LStrip(s))

\* str.lower(), piece by piece
LowerPiece(c) ==
    CASE c = ".MP4" -> ".mp4"
      [] c = ".JPG" -> ".jpg"
      [] c = "VALID" -> "valid"
      [] c = "Photo" -> "photo"
      [] c = "Video" -> "video"
      [] c = "Comments" -> "comments"
      [] c = "REDD.IT" -> "redd.it"
      [] OTHER -> c
Lower(s) == [i \in 1..Len(s) |-> LowerPiece(s[i])]

\* str.startswith("//")
StartsWithSlashes(s) == Len(s) >= 1 /\ s[1] = "//"

\* str.startswith(("http://", "https://"))
StartsWithHttp(s) == Len(s) >= 2 /\ s[1] \in {"http:", "https:"} /\ s[2] = "//"

\* str.split("?", 1)[0]: a query piece starts with "?"
IsQuery(c) == c \in {"?q", "?tag"}
RECURSIVE BeforeQuery(_)
BeforeQuery(s) ==
    IF s = <<>> \/ IsQuery(Head(s)) THEN <<>> ELSE <<Head(s)>> \o BeforeQuery(Tail(s))

\* any(s.endswith(ext) for ext in suffixes)
EndsWithAny(s, suffixes) == s # <<>> /\ s[Len(s)] \in suffixes

\* `piece in s`
Contains(s, piece) == \E i \in 1..Len(s) : s[i] = piece

\* str.replace("&amp;", "&")
Unescape(s) == [i \in 1..Len(s) |-> IF s[i] = "&amp;" THEN "&" ELSE s[i]]
\* results of an extractor call
Asset(caption, photos, video, cover) ==
    [k |-> "asset", caption |-> caption, photos |-> photos, video |-> video,
     cover |-> cover, e |-> None]
Raised(e) ==
    [k |-> "raise", caption |-> <<>>, photos |-> <<>>, video |-> JNull,
     cover |-> JNull, e |-> e]

\* =============================================================== reddit
\* a normalizer that lets every non-empty candidate through
RedditNormalizeUrlLax(url) ==
    IF ~Truthy(url) THEN JNull
    ELSE IF Strip(url.s) = <<>> THEN JNull
    ELSE JStr(Unescape(Strip(url.s)))

\* reddit.py:379-391
RedditNormalizeUrl(url) ==
    IF ~Truthy(url) THEN JNull
    ELSE LET stripped == Strip(url.s)
             unescaped == Unescape(stripped)
             candidate == IF StartsWithSlashes(unescaped)
                          THEN <<"https:">> \o unescaped ELSE unescaped
         IN  IF stripped = <<>> THEN JNull
             ELSE IF StartsWithHttp(candidate) THEN JStr(candidate)
             ELSE JNull

\* reddit.py:393-397
RedditIsImageUrl(url) ==
    EndsWithAny(BeforeQuery(Lower(url)), {".jpg", ".jpeg", ".png", ".gif", ".webp"})

\* reddit.py:399-403
RedditIsVideoUrl(url) ==
    LET normalized == BeforeQuery(Lower(url))
    IN  EndsWithAny(normalized, {".mp4", ".mov", ".m4v", ".webm"})
            \/ Contains(normalized, "v.redd.it")

\* reddit.py:298-302: the first source whose "u" (or "url") is a non-blank string
RECURSIVE FirstSourceUrl(_)
FirstSourceUrl(sources) ==
    IF sources = <<>> THEN JNull
    ELSE LET url == Or(Get(Head(sources), "u"), Get(Head(sources), "url"))
         IN  IF IsStr(url) /\ Strip(url.s) # <<>> THEN url
             ELSE FirstSourceUrl(Tail(sources))

\* reddit.py:284-302
ResolveGalleryUrl(entry) ==
    IF ~IsMap(entry) THEN Ok(JNull)
    ELSE LET status == Get(entry, "status")
             preferred == Get(entry, "s")
             previews == IterateOrEmpty(Get(entry, "p"))
         IN  IF Truthy(status) /\ ~IsStr(status) THEN Raise("AttributeError")
             ELSE IF (IF Truthy(status) THEN Lower(status.s) ELSE <<>>) # <<"valid">>
             THEN Ok(JNull)
             ELSE IF previews.r = "raise" THEN previews
             ELSE Ok(FirstSourceUrl((IF IsMap(preferred) THEN <<preferred>> ELSE <<>>)
                                        \o SelectSeq(previews.v, IsMap)))

\* reddit.py:261-264: the media ids listed by gallery_data.items
RECURSIVE OrderedIds(_)
OrderedIds(items) ==
    IF items = <<>> THEN <<>>
    ELSE LET media_id == SafeGet(Head(items), "media_id")
         IN  (IF IsStr(media_id) THEN <<media_id>> ELSE <<>>) \o OrderedIds(Tail(items))

\* metadata.get(media_id): a key is a one-piece string
MetaGet(metadata, media_id) ==
    IF Len(media_id.s) = 1 THEN Get(metadata, media_id.s[1]) ELSE JNull

\* the gallery loop without the `normalized in seen` test
RECURSIVE GalleryLoopNoDedup(_, _, _, _)
GalleryLoopNoDedup(metadata, ordered_ids, photos, seen) ==
    IF ordered_ids = <<>> THEN Ok(photos)
    ELSE LET url == ResolveGalleryUrl(MetaGet(metadata, Head(ordered_ids)))
             normalized == RedditNormalizeUrl(url.v)
         IN  IF url.r = "raise" THEN url
             ELSE IF ~Truthy(url.v) \/ ~Truthy(normalized)
             THEN GalleryLoopNoDedup(metadata, Tail(ordered_ids), photos, seen)
             ELSE GalleryLoopNoDedup(metadata, Tail(ordered_ids),
                                     Append(photos, normalized.s), seen)

\* reddit.py:268-282
RECURSIVE GalleryLoop(_, _, _, _)
GalleryLoop(metadata, ordered_ids, photos, seen) ==
    IF ordered_ids = <<>> THEN Ok(photos)
    ELSE LET url == ResolveGalleryUrl(MetaGet(metadata, Head(ordered_ids)))
             normalized == RedditNormalizeUrl(url.v)
         IN  IF url.r = "raise" THEN url
             ELSE IF ~Truthy(url.v) THEN GalleryLoop(metadata, Tail(ordered_ids), photos, seen)
             ELSE IF ~Truthy(normalized) \/ normalized.s \in seen
             THEN GalleryLoop(metadata, Tail(ordered_ids), photos, seen)
             ELSE GalleryLoop(metadata, Tail(ordered_ids),
                              Append(photos, normalized.s), seen \cup {normalized.s})

\* the ids taken in the iteration order of media_metadata whatever gallery_data says
GalleryOrderByMetadata(metadata, listed) == Keys(metadata)

\* reddit.py:258-266: gallery_data.items order when it lists any id
GalleryOrder(metadata, listed) == IF listed = <<>> THEN Keys(metadata) ELSE listed

\* reddit.py:253-282
ExtractGalleryPhotos(post) ==
    LET metadata == Get(post, "media_metadata")
        gallery_data == Get(post, "gallery_data")
        items == IF IsMap(gallery_data)
                 THEN IterateOrEmpty(Get(gallery_data, "items")) ELSE Ok(<<>>)
    IN  IF ~IsMap(metadata) THEN Ok(<<>>)
        ELSE IF items.r = "raise" THEN items
        ELSE GalleryLoop(metadata, GalleryOrder(metadata, OrderedIds(items.v)), <<>>, {})

\* reddit.py:313-322
RECURSIVE FirstPreviewImage(_)
FirstPreviewImage(images) ==
    IF images = <<>> THEN JNull
    ELSE LET source == SafeGet(Head(images), "source")
             url == SafeGet(source, "url")
             normalized == IF IsStr(url) THEN RedditNormalizeUrl(url) ELSE JNull
         IN  IF Truthy(normalized) THEN normalized ELSE FirstPreviewImage(Tail(images))

\* reddit.py:304-323
ExtractSinglePhoto(post) ==
    LET direct == Or(Get(post, "url_overridden_by_dest"), Get(post, "url"))
        images == SafeGet(Get(post, "preview"), "images")
    IN  IF IsStr(direct) /\ RedditIsImageUrl(direct.s) THEN RedditNormalizeUrl(direct)
        ELSE IF IsList(images) THEN FirstPreviewImage(images.xs)
        ELSE JNull

\* reddit.py:245-251
RedditExtractPhotos(post) ==
    LET photos == ExtractGalleryPhotos(post)
        single == ExtractSinglePhoto(post)
    IN  IF photos.r = "raise" \/ photos.v # <<>> THEN photos
        ELSE Ok(IF Truthy(single) THEN <<single.s>> ELSE <<>>)

\* reddit.py:354-360
RECURSIVE FirstVideoField(_, _)
FirstVideoField(reddit_video, keys) ==
    IF keys = <<>> THEN JNull
    ELSE LET url == Get(reddit_video, Head(keys))
             normalized == IF IsStr(url) THEN RedditNormalizeUrl(url) ELSE JNull
         IN  IF Truthy(normalized) THEN normalized
             ELSE FirstVideoField(reddit_video, Tail(keys))

\* reddit.py:348-368
ExtractRedditVideo(section) ==
    IF ~IsMap(section) THEN JNull
    ELSE LET reddit_video == Get(section, "reddit_video")
             url == Or(Get(section, "fallback_url"), Get(section, "url"))
         IN  IF IsMap(reddit_video)
             THEN FirstVideoField(reddit_video,
                      <<"fallback_url", "scrubber_media_url", "hls_url", "dash_url">>)
             ELSE IF Get(section, "type") = JStr(<<"video">>) /\ IsStr(url)
             THEN RedditNormalizeUrl(url)
             ELSE JNull

\* reddit.py:331-334
RECURSIVE FirstSectionVideo(_)
FirstSectionVideo(sections) ==
    IF sections = <<>> THEN JNull
    ELSE LET url == ExtractRedditVideo(Head(sections))
         IN  IF Truthy(url) THEN url ELSE FirstSectionVideo(Tail(sections))

\* reddit.py:325-346, with the loop over crosspost_parent_list (340-344)
RECURSIVE RedditExtractVideo(_)
RECURSIVE ParentsVideo(_)
ParentsVideo(parents) ==
    IF parents = <<>> THEN Ok(JNull)
    ELSE IF ~IsMap(Head(parents)) THEN ParentsVideo(Tail(parents))
    ELSE LET candidate == RedditExtractVideo(Head(parents))
         IN  IF candidate.r = "raise" \/ Truthy(candidate.v) THEN candidate
             ELSE ParentsVideo(Tail(parents))

RedditExtractVideo(post) ==
    LET preview == Get(post, "preview")
        direct == Or(Get(post, "url_overridden_by_dest"), Get(post, "url"))
        parents == IterateOrEmpty(Get(post, "crosspost_parent_list"))
    IN  IF Truthy(preview) /\ ~IsMap(preview) THEN Raise("AttributeError")
        ELSE LET url == FirstSectionVideo(<<Get(post, "secure_media"), Get(post, "media"),
                                            SafeGet(preview, "reddit_video_preview")>>)
             IN  IF Truthy(url) THEN Ok(url)
                 ELSE IF IsStr(direct) /\ RedditIsVideoUrl(direct.s)
                 THEN Ok(RedditNormalizeUrl(direct))
                 ELSE IF parents.r = "raise" THEN parents
                 ELSE ParentsVideo(parents.v)

\* reddit.py:370-377
RedditBuildCaption(post) ==
    LET title == Get(post, "title")
        author == Get(post, "author")
        t == IF Truthy(title) /\ Strip(title.s) # <<>> THEN Strip(title.s) ELSE <<"Reddit">>
    IN  IF Truthy(title) /\ ~IsStr(title) THEN Raise("AttributeError")
        ELSE IF Truthy(author) /\ ~IsStr(author) THEN Raise("AttributeError")
        ELSE IF Truthy(author) /\ Strip(author.s) # <<>>
        THEN Ok(t \o <<"\n u/">> \o Strip(author.s))
        ELSE Ok(t)

\* _build_asset without the `if not photos and not video_url` check
RedditBuildAssetUnchecked(post) ==
    LET photos == RedditExtractPhotos(post)
        video_url == RedditExtractVideo(post)
        caption == RedditBuildCaption(post)
    IN  IF photos.r = "raise" THEN Raised(photos.e)
        ELSE IF video_url.r = "raise" THEN Raised(video_url.e)
        ELSE IF caption.r = "raise" THEN Raised(caption.e)
        ELSE Asset(caption.v, photos.v, video_url.v, JNull)

\* reddit.py:142-150
RedditBuildAsset(post) ==
    LET photos == RedditExtractPhotos(post)
        video_url == RedditExtractVideo(post)
        caption == RedditBuildCaption(post)
    IN  IF photos.r = "raise" THEN Raised(photos.e)
        ELSE IF video_url.r = "raise" THEN Raised(video_url.e)
        ELSE IF photos.v = <<>> /\ ~Truthy(video_url.v) THEN Raised("RedditDownloadError")
        ELSE IF caption.r = "raise" THEN Raised(caption.e)
        ELSE Asset(caption.v, photos.v, video_url.v, JNull)
\* ============================================================== twitter
\* twitter.py:213-217
TwitterNormalizeUrl(url) == IF StartsWithSlashes(url) THEN <<"https:">> \o url ELSE url

\* twitter.py:204-211
TwitterIsVideoUrl(url) ==
    \/ Contains(Lower(url), "video.twimg.com")
    \/ EndsWithAny(BeforeQuery(Lower(url)),
                   {".mp4", ".mov", ".m4v", ".webm", ".mkv", ".m3u8"})

\* twitter.py:107-113
RECURSIVE CaptionFrom(_, _, _)
CaptionFrom(tweet, payload, fields) ==
    IF fields = <<>> THEN <<>>
    ELSE LET candidate == Or(Get(tweet, Head(fields)), Get(payload, Head(fields)))
         IN  IF IsStr(candidate) /\ Strip(candidate.s) # <<>> THEN Strip(candidate.s)
             ELSE CaptionFrom(tweet, payload, Tail(fields))

TwitterExtractCaption(tweet, payload) ==
    IF ~IsMap(tweet) THEN Raise("AttributeError")
    ELSE Ok(CaptionFrom(tweet, payload, <<"full_text", "text", "description", "content">>))

\* `x not in photos`
InSeq(x, seq) == \E i \in 1..Len(seq) : seq[i] = x

\* the loop over tweet["media"] appending every photo, seen before or not
RECURSIVE MediaPhotosNoDedup(_, _)
MediaPhotosNoDedup(entries, photos) ==
    IF entries = <<>> THEN Ok(photos)
    ELSE LET entry == Head(entries)
             type == SafeGet(entry, "type")
             url == Or(Or(SafeGet(entry, "url"), SafeGet(entry, "media_url_https")),
                       SafeGet(entry, "media_url"))
         IN  IF ~IsMap(entry) THEN MediaPhotosNoDedup(Tail(entries), photos)
             ELSE IF Truthy(type) /\ ~IsStr(type) THEN Raise("AttributeError")
             ELSE IF (IF Truthy(type) THEN Lower(type.s) ELSE <<>>) # <<"photo">>
             THEN MediaPhotosNoDedup(Tail(entries), photos)
             ELSE IF ~Truthy(url) THEN MediaPhotosNoDedup(Tail(entries), photos)
             ELSE IF ~IsStr(url) THEN Raise("AttributeError")
             ELSE MediaPhotosNoDedup(Tail(entries),
                                     Append(photos, TwitterNormalizeUrl(url.s)))

\* twitter.py:117-123
RECURSIVE MediaPhotos(_, _)
MediaPhotos(entries, photos) ==
    IF entries = <<>> THEN Ok(photos)
    ELSE LET entry == Head(entries)
             type == SafeGet(entry, "type")
             url == Or(Or(SafeGet(entry, "url"), SafeGet(entry, "media_url_https")),
                       SafeGet(entry, "media_url"))
             normalized == TwitterNormalizeUrl(url.s)
         IN  IF ~IsMap(entry) THEN MediaPhotos(Tail(entries), photos)
             ELSE IF Truthy(type) /\ ~IsStr(type) THEN Raise("AttributeError")
             ELSE IF (IF Truthy(type) THEN Lower(type.s) ELSE <<>>) # <<"photo">>
             THEN MediaPhotos(Tail(entries), photos)
             ELSE IF ~Truthy(url) THEN MediaPhotos(Tail(entries), photos)
             ELSE IF ~IsStr(url) THEN Raise("AttributeError")
             ELSE IF InSeq(normalized, photos) THEN MediaPhotos(Tail(entries), photos)
             ELSE MediaPhotos(Tail(entries), Append(photos, normalized))

\* twitter.py:126-130
RECURSIVE FlatPhotos(_, _)
FlatPhotos(urls, photos) ==
    IF urls = <<>> THEN photos
    ELSE LET url == Head(urls)
             normalized == TwitterNormalizeUrl(url.s)
         IN  IF ~IsStr(url) THEN FlatPhotos(Tail(urls), photos)
             ELSE IF ~Contains(normalized, "video.twimg.com") /\ ~InSeq(normalized, photos)
             THEN FlatPhotos(Tail(urls), Append(photos, normalized))
             ELSE FlatPhotos(Tail(urls), photos)

\* twitter.py:115-132
TwitterExtractPhotos(tweet, payload) ==
    LET media == IterateOrEmpty(Get(tweet, "media"))
        photos == MediaPhotos(media.v, <<>>)
        urls == IterateOrEmpty(Or(Get(payload, "mediaURLs"), Get(tweet, "mediaURLs")))
    IN  IF media.r = "raise" THEN media
        ELSE IF photos.r = "raise" \/ photos.v # <<>> THEN photos
        ELSE IF urls.r = "raise" THEN urls
        ELSE Ok(FlatPhotos(urls.v, <<>>))

\* ---- _extract_video: the candidates in scan order, then `consider` on each
Candidate(url, bitrate) == [c |-> "cand", url |-> url, bitrate |-> bitrate, e |-> None]
Failure(e) == [c |-> "raise", url |-> JNull, bitrate |-> JNull, e |-> e]

\* twitter.py:159-161 and 183-185: the variants of one entry
RECURSIVE VariantCandidates(_, _)
VariantCandidates(variants, alt) ==
    IF variants = <<>> THEN <<>>
    ELSE LET variant == Head(variants)
         IN  (IF IsMap(variant)
              THEN <<Candidate(Get(variant, "url"),
                               IF alt THEN Or(Get(variant, "bitrate"), Get(variant, "bit_rate"))
                               ELSE Get(variant, "bitrate"))>>
              ELSE <<>>) \o VariantCandidates(Tail(variants), alt)

\* only the first variant of an entry is looked at
EntryVariantsFirstOnly(entry, alt) ==
    LET variants == IterateOrEmpty(Get(entry, "variants"))
    IN  IF variants.r = "raise" THEN <<Failure(variants.e)>>
        ELSE IF variants.v = <<>> THEN <<>>
        ELSE VariantCandidates(<<Head(variants.v)>>, alt)

\* twitter.py:159-161 and 183-185: `for variant in entry.get("variants") or []`
EntryVariants(entry, alt) ==
    LET variants == IterateOrEmpty(Get(entry, "variants"))
    IN  IF variants.r = "raise" THEN <<Failure(variants.e)>>
        ELSE VariantCandidates(variants.v, alt)

\* twitter.py:157-161
RECURSIVE SectionCandidates(_)
SectionCandidates(sections) ==
    IF sections = <<>> THEN <<>>
    ELSE <<Candidate(Get(Head(sections), "url"), Get(Head(sections), "bitrate"))>>
             \o EntryVariants(Head(sections), FALSE)
             \o SectionCandidates(Tail(sections))

\* twitter.py:178-185
RECURSIVE MediaCandidates(_)
MediaCandidates(collection) ==
    IF collection = <<>> THEN <<>>
    ELSE LET media == Head(collection)
             type == Get(media, "type")
             media_type == IF Truthy(type) THEN Lower(type.s) ELSE <<>>
         IN  IF Truthy(type) /\ ~IsStr(type) THEN <<Failure("AttributeError")>>
             ELSE (IF media_type \in {<<"video">>, <<"animated_gif">>}
                   THEN <<Candidate(Or(Get(media, "url"), Get(media, "video_url")),
                                    Or(Get(media, "bitrate"), Get(media, "bit_rate")))>>
                            \o EntryVariants(media, TRUE)
                   ELSE <<>>) \o MediaCandidates(Tail(collection))

\* twitter.py:165-167
CollectMedia(value) == IF IsList(value) THEN SelectSeq(value.xs, IsMap) ELSE <<>>

\* twitter.py:187-193
UrlSequence(urls) ==
    IF IsStr(urls) THEN <<Candidate(urls, JNull)>>
    ELSE IF IsList(urls)
    THEN LET strs == SelectSeq(urls.xs, IsStr)
         IN  [i \in 1..Len(strs) |-> Candidate(strs[i], JNull)]
    ELSE <<>>

\* twitter.py:151-200: every candidate _extract_video considers, in scan order
VideoCandidates(tweet, payload) ==
    LET video_section == Get(tweet, "video")
        videos == IterateOrEmpty(Get(tweet, "videos"))
        extended_entities == Get(tweet, "extended_entities")
    IN  IF videos.r = "raise" THEN <<Failure(videos.e)>>
        ELSE SectionCandidates((IF IsMap(video_section) THEN <<video_section>> ELSE <<>>)
                                   \o SelectSeq(videos.v, IsMap))
             \o MediaCandidates(CollectMedia(Get(tweet, "media")))
             \o MediaCandidates(CollectMedia(Get(tweet, "media_extended")))
             \o MediaCandidates(CollectMedia(Get(payload, "media_extended")))
             \o MediaCandidates(CollectMedia(SafeGet(extended_entities, "media")))
             \o UrlSequence(Get(tweet, "mediaURLs"))
             \o UrlSequence(Get(payload, "mediaURLs"))
             \o UrlSequence(Get(tweet, "combinedMediaUrl"))
             \o UrlSequence(Get(payload, "combinedMediaUrl"))
             \o UrlSequence(Get(tweet, "combinedMediaURL"))
             \o UrlSequence(Get(payload, "combinedMediaURL"))
             \o UrlSequence(Get(tweet, "combined_media_url"))
             \o UrlSequence(Get(payload, "combined_media_url"))

NoBest == [url |-> JNull, score |-> -1]

\* `score > best_score` turned into `score >= best_score`: the last of equals wins
BetterOrEqual(score, best_score) == score >= best_score

\* twitter.py:147
Better(score, best_score) == score > best_score

\* twitter.py:139-149: consider(url, bitrate); a bitrate given as a string is not
\* a numeral in the payloads modelled, so int() raises ValueError on it
Consider(best, url, bitrate) ==
    IF ~Truthy(url) THEN Ok(best)
    ELSE IF ~IsStr(url) THEN Raise("AttributeError")
    ELSE IF ~TwitterIsVideoUrl(TwitterNormalizeUrl(url.s)) THEN Ok(best)
    ELSE IF ~Truthy(bitrate) \/ IsNum(bitrate)
    THEN LET score == IF Truthy(bitrate) THEN bitrate.n ELSE 0
         IN  IF Better(score, best.score)
             THEN Ok([url |-> JStr(TwitterNormalizeUrl(url.s)), score |-> score])
             ELSE Ok(best)
    ELSE IF IsStr(bitrate) THEN Raise("ValueError")
    ELSE Raise("TypeError")

RECURSIVE ConsiderAll(_, _)
ConsiderAll(candidates, best) ==
    IF candidates = <<>> THEN Ok(best.url)
    ELSE IF Head(candidates).c = "raise" THEN Raise(Head(candidates).e)
    ELSE LET next == Consider(best, Head(candidates).url, Head(candidates).bitrate)
         IN  IF next.r = "raise" THEN next ELSE ConsiderAll(Tail(candidates), next.v)

\* twitter.py:134-202
TwitterExtractVideo(tweet, payload) == ConsiderAll(VideoCandidates(tweet, payload), NoBest)

\* twitter.py:85-105
TwitterParsePayload(payload) ==
    LET nested == SafeGet(payload, "tweet")
        tweet == IF Truthy(nested) THEN nested ELSE payload
        caption == TwitterExtractCaption(tweet, payload)
        photos == TwitterExtractPhotos(tweet, payload)
        video_url == TwitterExtractVideo(tweet, payload)
    IN  IF ~Truthy(nested) /\ ~IsMap(payload) THEN Raised("TwitterDownloadError")
        ELSE IF caption.r = "raise" THEN Raised(caption.e)
        ELSE IF photos.r = "raise" THEN Raised(photos.e)
        ELSE IF video_url.r = "raise" THEN Raised(video_url.e)
        ELSE IF photos.v = <<>> /\ ~Truthy(video_url.v) THEN Raised("TwitterDownloadError")
        ELSE Asset(caption.v, photos.v, video_url.v, JNull)
\* =============================================================== tiktok
\* tiktok.py:243-252
NormalizePhotoUrl(url) ==
    LET stripped == Strip(url)
        candidate == IF StartsWithSlashes(stripped) THEN <<"https:">> \o stripped
                     ELSE stripped
    IN  IF stripped = <<>> THEN JNull
        ELSE IF StartsWithHttp(candidate) THEN JStr(candidate)
        ELSE JNull

\* tiktok.py:203-241: the strings _iter_photo_urls yields for a value, in order
RECURSIVE IterPhotoUrls(_)
RECURSIVE IterItems(_)
RECURSIVE IterKeys(_, _)
RECURSIVE IterDirect(_, _)
RECURSIVE IterLists(_, _)

\* tiktok.py:218-219, 239-240
IterItems(items) ==
    IF items = <<>> THEN <<>> ELSE IterPhotoUrls(Head(items)) \o IterItems(Tail(items))

\* tiktok.py:211-214
IterDirect(value, keys) ==
    IF keys = <<>> THEN <<>>
    ELSE (IF IsStr(Get(value, Head(keys))) THEN <<Get(value, Head(keys)).s>> ELSE <<>>)
             \o IterDirect(value, Tail(keys))

\* tiktok.py:215-219
IterLists(value, keys) ==
    IF keys = <<>> THEN <<>>
    ELSE (IF IsList(Get(value, Head(keys))) THEN IterItems(Get(value, Head(keys)).xs)
          ELSE <<>>) \o IterLists(value, Tail(keys))

\* tiktok.py:220-236
IterKeys(value, keys) ==
    IF keys = <<>> THEN <<>>
    ELSE IterPhotoUrls(Get(value, Head(keys))) \o IterKeys(value, Tail(keys))

IterPhotoUrls(value) ==
    IF ~Truthy(value) THEN <<>>
    ELSE IF IsStr(value) THEN <<value.s>>
    ELSE IF IsMap(value)
    THEN IterDirect(value, <<"url", "image_url", "imageUrl">>)
             \o IterLists(value, <<"url_list", "urlList", "urls">>)
             \o IterKeys(value, <<"images", "image_list", "imageList", "image_urls",
                                  "imageUrls", "display_image", "origin_image",
                                  "webp_color_image", "download_addr", "cover",
                                  "cover_image", "image", "img", "imageURL">>)
    ELSE IF IsList(value) THEN IterItems(value.xs)
    ELSE <<>>

\* the collecting loop without the `normalized in seen` test
RECURSIVE CollectLoopNoDedup(_, _, _)
CollectLoopNoDedup(urls, collected, seen) ==
    IF urls = <<>> THEN collected
    ELSE LET normalized == NormalizePhotoUrl(Head(urls))
         IN  IF ~Truthy(normalized) THEN CollectLoopNoDedup(Tail(urls), collected, seen)
             ELSE CollectLoopNoDedup(Tail(urls), Append(collected, normalized.s), seen)

\* tiktok.py:194-201
RECURSIVE CollectLoop(_, _, _)
CollectLoop(urls, collected, seen) ==
    IF urls = <<>> THEN collected
    ELSE LET normalized == NormalizePhotoUrl(Head(urls))
         IN  IF ~Truthy(normalized) \/ normalized.s \in seen
             THEN CollectLoop(Tail(urls), collected, seen)
             ELSE CollectLoop(Tail(urls), Append(collected, normalized.s),
                              seen \cup {normalized.s})

\* tiktok.py:190-201, on the list of its sources
CollectPhotoUrls(sources) == CollectLoop(IterItems(sources), <<>>, {})

GetAll(m, keys) == [i \in 1..Len(keys) |-> Get(m, keys[i])]

\* tiktok.py:143-161
ExtractPhotoSources(detail) ==
    LET image_post == Or(Or(Get(detail, "imagePost"), Get(detail, "image_post")), JMap(<<>>))
        image_info == Or(Get(detail, "image_post_info"), Get(detail, "imagePostInfo"))
    IN  CollectPhotoUrls(
            (IF IsMap(image_post)
             THEN GetAll(image_post, <<"images", "cover", "shareCover", "coverImage",
                                       "cover_image">>)
             ELSE <<>>)
            \o (IF IsMap(image_info)
                THEN GetAll(image_info, <<"images", "image_list", "imageList", "image_urls">>)
                ELSE <<>>)
            \o GetAll(detail, <<"images", "image_list", "imageList", "image_urls",
                                "imageUrls">>))

\* tiktok.py:135-141; a name that is not a string is formatted by the f-string
TikTokBuildCaption(detail, info) ==
    LET a == Get(detail, "author")
        author == Or(Or(SafeGet(a, "nickname"), Get(info, "channel")), Get(info, "uploader"))
        title == Or(Or(Get(detail, "desc"), Get(info, "title")), JStr(<<"TikTok">>))
    IN  IF Truthy(a) /\ ~IsMap(a) THEN Raise("AttributeError")
        ELSE IF ~IsStr(title) THEN Raise("AttributeError")
        ELSE Ok((IF Strip(title.s) # <<>> THEN Strip(title.s) ELSE <<"TikTok">>)
                    \o (IF ~Truthy(author) THEN <<>>
                        ELSE IF IsStr(author) THEN <<"\n">> \o author.s
                        ELSE <<"\n", "repr">>))

\* tiktok.py:163-176
PickCover(detail) ==
    LET video == Get(detail, "video")
        image_post == Get(detail, "imagePost")
        cover_dict == SafeGet(image_post, "cover")
        covers == GetAll(IF Truthy(video) THEN video ELSE JMap(<<>>),
                         <<"cover", "originCover", "dynamicCover">>)
                    \o (IF ~Truthy(image_post) THEN <<JNull>>
                        ELSE IF IsMap(image_post) THEN <<SafeGet(cover_dict, "imageURL")>>
                        ELSE <<>>)
        photo_urls == CollectPhotoUrls(covers)
    IN  IF Truthy(video) /\ ~IsMap(video) THEN Raise("AttributeError")
        ELSE IF IsMap(image_post) /\ Truthy(cover_dict) /\ ~IsMap(cover_dict)
        THEN Raise("AttributeError")
        ELSE Ok(IF photo_urls # <<>> THEN JStr(photo_urls[1]) ELSE JNull)

\* tiktok.py:100-109
BuildPhotoAlbum(detail, images) ==
    LET caption == TikTokBuildCaption(detail, JMap(<<>>))
        cover_url == PickCover(detail)
    IN  IF images = <<>> THEN Raised("TikTokDownloadError")
        ELSE IF caption.r = "raise" THEN Raised(caption.e)
        ELSE IF cover_url.r = "raise" THEN Raised(cover_url.e)
        ELSE Asset(caption.v, images, JNull, cover_url.v)

\* tiktok.py:92-98
BuildVideo(info, detail) ==
    LET video_url == Get(info, "url")
        caption == TikTokBuildCaption(detail, info)
        cover_url == PickCover(detail)
    IN  IF ~Truthy(video_url) THEN Raised("TikTokDownloadError")
        ELSE IF caption.r = "raise" THEN Raised(caption.e)
        ELSE IF cover_url.r = "raise" THEN Raised(cover_url.e)
        ELSE Asset(caption.v, <<>>, video_url, cover_url.v)

\* tiktok.py:82-90 with _aweme (128-133), after _extract_info returned `info`
TikTokFetchAsset(info) ==
    LET detail == Get(info, "_aweme_detail")
        images == ExtractPhotoSources(detail)
    IN  IF ~IsMap(detail) THEN Raised("TikTokDownloadError")
        ELSE IF images # <<>> THEN BuildPhotoAlbum(detail, images)
        ELSE BuildVideo(info, detail)

\* tiktok.py:76-80 with _aweme (128-133)
TikTokFetchPhotos(info) ==
    LET detail == Get(info, "_aweme_detail")
    IN  IF ~IsMap(detail) THEN Raised("TikTokDownloadError")
        ELSE BuildPhotoAlbum(detail, ExtractPhotoSources(detail))
\* ====================================================== extractor calls
\* all sequences over S of length at most n
RECURSIVE SeqsUpTo(_, _)
SeqsUpTo(S, n) ==
    IF n = 0 THEN {<<>>}
    ELSE LET shorter == SeqsUpTo(S, n - 1)
         IN  shorter \cup {Append(q, x) : q \in {r \in shorter : Len(r) = n - 1}, x \in S}


\* ---- URLs
PhotoA == <<"https:", "//", "i.redd.it", "/a", ".jpg">>
PhotoARelative == <<"//", "i.redd.it", "/a", ".jpg">>
PhotoB == <<"http:", "//", "cdn", "/b", ".png", "?q">>
PhotoC == <<" ", "https:", "//", "cdn", "/c", ".JPG", " ">>
PhotoFtp == <<"ftp:", "//", "cdn", "/d", ".jpg">>
Blank == <<" ">>
ExtraA == <<"https:", "//", "cdn", "/extra_a", ".jpg">>
ExtraARelative == <<"//", "cdn", "/extra_a", ".jpg">>
ExtraB == <<"https:", "//", "cdn", "/extra_b", ".jpg">>
ExtraBRelative == <<"//", "cdn", "/extra_b", ".jpg">>
VideoLow == <<"https:", "//", "video.twimg.com", "/low", ".mp4", "?tag">>
VideoHigh == <<"//", "video.twimg.com", "/high", ".mp4">>
VideoMid == <<"https:", "//", "cdn", "/mid", ".MP4">>
VideoFtp == <<"ftp:", "//", "cdn", "/v", ".mp4">>
NotVideo == <<"https:", "//", "cdn", "/stream">>
RedditVideo == <<"https:", "//", "v.redd.it", "/id", "/DASH_1080", ".mp4", "?q">>

\* values of the wrong type for any field
WrongTyped == {JNum(5), JStr(<<"x">>), JList(<<JNum(1)>>), JMap(<<<<"z", JNum(1)>>>>)}

\* ---- Reddit posts
MediaIds == {"m1", "m2", "m3"}

\* media_metadata entries: preferred source, previews only, blank source with a
\* preview, a source the normalizer rejects, an entry that is not valid
Entries ==
    {Obj(<<<<"status", JStr(<<"valid">>)>>, <<"s", Obj(<<<<"u", JStr(PhotoA)>>>>)>>>>),
     Obj(<<<<"status", JStr(<<"VALID">>)>>,
           <<"s", Obj(<<<<"u", JStr(Blank)>>>>)>>,
           <<"p", JList(<<JNum(1), Obj(<<<<"url", JStr(PhotoB)>>>>),
                          Obj(<<<<"u", JStr(PhotoA)>>>>)>>)>>>>),
     Obj(<<<<"status", JStr(<<"valid">>)>>,
           <<"p", JList(<<Obj(<<<<"u", JStr(PhotoARelative)>>>>)>>)>>>>),
     Obj(<<<<"status", JStr(<<"valid">>)>>, <<"s", Obj(<<<<"u", JStr(PhotoC)>>>>)>>>>),
     Obj(<<<<"status", JStr(<<"valid">>)>>, <<"s", Obj(<<<<"u", JStr(PhotoFtp)>>>>)>>,
           <<"p", JList(<<Obj(<<<<"u", JStr(PhotoB)>>>>)>>)>>>>),
     Obj(<<<<"status", JStr(<<"failed">>)>>, <<"s", Obj(<<<<"u", JStr(PhotoB)>>>>)>>>>)}

GalleryItems(ids) ==
    JList([i \in 1..Len(ids) |-> Obj(<<<<"media_id", JStr(<<ids[i]>>)>>>>)])

\* gallery posts: media_metadata inserted in the order m1, m2, m3 and
\* gallery_data.items listing ids in any order (or no gallery_data at all)
GalleryPosts ==
    {Obj(<<<<"title", JStr(<<"Gallery">>)>>,
           <<"media_metadata", Obj(<<<<"m1", e1>>, <<"m2", e2>>, <<"m3", e3>>>>)>>,
           <<"gallery_data", IF ids = <<>> THEN Absent
                             ELSE Obj(<<<<"items", GalleryItems(ids)>>>>)>>>>)
        : e1 \in Entries,
          e2 \in {Obj(<<<<"status", JStr(<<"VALID">>)>>,
                        <<"s", Obj(<<<<"u", JStr(Blank)>>>>)>>,
                        <<"p", JList(<<JNum(1), Obj(<<<<"url", JStr(PhotoB)>>>>),
                                       Obj(<<<<"u", JStr(PhotoA)>>>>)>>)>>>>),
                  Obj(<<<<"status", JStr(<<"valid">>)>>,
                        <<"p", JList(<<Obj(<<<<"u", JStr(PhotoARelative)>>>>)>>)>>>>),
                  Obj(<<<<"status", JStr(<<"failed">>)>>,
                        <<"s", Obj(<<<<"u", JStr(PhotoB)>>>>)>>>>)},
          e3 \in {Absent,
                  Obj(<<<<"status", JStr(<<"valid">>)>>,
                        <<"s", Obj(<<<<"url", JStr(PhotoC)>>>>)>>>>)},
          ids \in SeqsUpTo(MediaIds, MaxGallery)}
RedditVideoObj(pairs) == Obj(<<<<"reddit_video", Obj(pairs)>>>>)

Previews ==
    {Absent,
     Obj(<<<<"images", JList(<<Obj(<<<<"source", Obj(<<<<"url", JStr(PhotoB)>>>>)>>>>)>>)>>>>),
     Obj(<<<<"images", JList(<<JNum(5),
                              Obj(<<<<"source", Obj(<<<<"url", JStr(Blank)>>>>)>>>>),
                              Obj(<<<<"source", Obj(<<<<"url", JStr(PhotoC)>>>>)>>>>)>>)>>>>),
     Obj(<<<<"reddit_video_preview",
             RedditVideoObj(<<<<"fallback_url", JStr(RedditVideo)>>>>)>>>>)}

\* posts with one direct link and / or a preview
SinglePosts ==
    {Obj(<<<<"url_overridden_by_dest", d1>>, <<"url", d2>>, <<"preview", pv>>,
           <<"author", JStr(<<"tester">>)>>>>)
        : d1 \in {Absent, JStr(<<>>), JStr(PhotoA), JStr(PhotoFtp)},
          d2 \in {Absent, JStr(PhotoARelative), JStr(RedditVideo), JStr(VideoFtp),
                  JStr(NotVideo)},
          pv \in Previews}

VideoSections ==
    {Absent,
     RedditVideoObj(<<<<"fallback_url", JStr(RedditVideo)>>>>),
     RedditVideoObj(<<<<"fallback_url", JStr(VideoFtp)>>, <<"hls_url", JStr(VideoHigh)>>,
                      <<"dash_url", JStr(VideoLow)>>>>),
     RedditVideoObj(<<<<"scrubber_media_url", JNum(5)>>>>),
     Obj(<<<<"type", JStr(<<"video">>)>>, <<"url", JStr(VideoMid)>>>>)}

\* posts with video sections, without or with a cross-post parent
VideoPosts ==
    {Obj(<<<<"secure_media", sm>>, <<"media", m>>, <<"url", d>>,
           <<"crosspost_parent_list", parents>>>>)
        : sm \in VideoSections, m \in VideoSections,
          d \in {Absent, JStr(VideoFtp), JStr(PhotoA)},
          parents \in {Absent}
              \cup {JList(<<JNum(1), Obj(<<<<"media", x>>>>)>>) : x \in VideoSections}}

\* posts with no image field and no video field
NoMediaPosts ==
    {Obj(<<>>),
     Obj(<<<<"title", JStr(<<"Empty">>)>>>>),
     Obj(<<<<"title", JStr(<<"Text">>)>>, <<"author", JStr(<<"tester">>)>>,
           <<"selftext", JStr(<<"words">>)>>>>)}

RedditFields ==
    {"media_metadata", "gallery_data", "url", "url_overridden_by_dest", "preview",
     "secure_media", "media", "crosspost_parent_list", "title", "author"}

\* an otherwise well-formed video post in which one field, or one nested value
\* of the gallery, has an unexpected type
MistypedPosts ==
    {Obj(<<<<"secure_media", RedditVideoObj(<<<<"fallback_url", JStr(RedditVideo)>>>>)>>,
           <<f, w>>>>)
        : f \in RedditFields \ {"secure_media"}, w \in WrongTyped \cup {JNull}}
    \cup
    {Obj(<<<<"secure_media", RedditVideoObj(<<<<"fallback_url", JStr(RedditVideo)>>>>)>>,
           <<"media_metadata", Obj(<<<<"m1", Obj(<<<<"status", st>>, <<"p", p>>>>)>>>>)>>,
           <<"gallery_data", Obj(<<<<"items", items>>>>)>>>>)
        : st \in WrongTyped \cup {JStr(<<"valid">>)},
          p \in WrongTyped \cup {Absent},
          items \in WrongTyped \cup {Absent}}

RedditPosts == GalleryPosts \cup SinglePosts \cup VideoPosts \cup NoMediaPosts \cup MistypedPosts

\* ---- Twitter payloads
\* a variant of a video entry: its URL and its declared bitrate, if any
Variant(url, bitrate) == Obj(<<<<"url", JStr(url)>>, <<"bitrate", bitrate>>>>)

Variants ==
    {Variant(url, bitrate) : url \in {VideoLow, VideoHigh, NotVideo},
                             bitrate \in {Absent, JNum(100), JNum(900)}}

VideoEntry(variants) ==
    Obj(<<<<"type", JStr(<<"video">>)>>, <<"variants", JList(variants)>>>>)

\* `media` empty and one video entry in `media_extended`, which sits at the top
\* level of the payload, inside the tweet object, or at the top level next to a
\* tweet object
ExtendedPayload(vs, place) ==
    CASE place = "top" ->
             Obj(<<<<"text", JStr(<<"words">>)>>, <<"media", JList(<<>>)>>,
                   <<"media_extended", JList(<<VideoEntry(vs)>>)>>>>)
      [] place = "tweet" ->
             Obj(<<<<"tweet", Obj(<<<<"media", JList(<<>>)>>,
                                    <<"media_extended", JList(<<VideoEntry(vs)>>)>>>>)>>>>)
      [] place = "beside" ->
             Obj(<<<<"tweet", Obj(<<<<"text", JStr(<<"words">>)>>,
                                    <<"media", JList(<<>>)>>>>)>>,
                   <<"media_extended", JList(<<VideoEntry(vs)>>)>>>>)

ExtendedPayloads ==
    {ExtendedPayload(vs, place) : vs \in SeqsUpTo(Variants, MaxVariants),
                                  place \in {"top", "tweet", "beside"}}

\* video candidates spread over the containers _extract_video scans
VideoTweets ==
    {Obj(<<<<"video", video>>, <<"videos", videos>>, <<"media", media>>,
           <<"extended_entities", extended>>, <<"mediaURLs", urls>>,
           <<"combinedMediaUrl", combined>>>>)
        : video \in {Absent,
                     Obj(<<<<"url", JStr(VideoMid)>>, <<"bitrate", JNum(100)>>>>),
                     Obj(<<<<"variants", JList(<<JNum(1), Variant(VideoLow, JNum(900))>>)>>>>)},
          videos \in {Absent,
                      JList(<<Obj(<<<<"variants", JList(<<Variant(VideoHigh, JNum(900)),
                                                          Variant(VideoLow, JNum(0))>>)>>>>)>>)},
          media \in {Absent,
                     JList(<<Obj(<<<<"type", JStr(<<"Video">>)>>, <<"url", JStr(VideoLow)>>,
                                   <<"bit_rate", JNum(900)>>>>)>>),
                     JList(<<Obj(<<<<"type", JStr(<<"photo">>)>>, <<"url", JStr(PhotoA)>>>>)>>)},
          extended \in {Absent,
                        Obj(<<<<"media", JList(<<Obj(<<<<"type", JStr(<<"animated_gif">>)>>,
                                                      <<"video_url", JStr(VideoMid)>>>>)>>)>>>>)},
          urls \in {Absent, JList(<<JStr(VideoHigh), JStr(PhotoA)>>)},
          combined \in {Absent, JStr(VideoMid)}}

PhotoEntry(url) == Obj(<<<<"type", JStr(<<"photo">>)>>, <<"media_url_https", JStr(url)>>>>)

\* photo tweets: typed media entries, or a flat list of URLs
PhotoTweets ==
    {Obj(<<<<"tweet", Obj(<<<<"text", JStr(<<"words">>)>>,
                            <<"media", JList([i \in 1..Len(us) |-> PhotoEntry(us[i])])>>>>)>>>>)
        : us \in SeqsUpTo({PhotoA, PhotoARelative, PhotoB, PhotoFtp}, MaxItems)}
    \cup
    {Obj(<<<<"mediaURLs", JList([i \in 1..Len(us) |-> JStr(us[i])])>>>>)
        : us \in SeqsUpTo({PhotoA, PhotoARelative, PhotoFtp, VideoLow, VideoMid}, MaxItems)}

NoMediaTweets ==
    {Obj(<<>>),
     Obj(<<<<"text", JStr(<<"words">>)>>>>),
     Obj(<<<<"tweet", Obj(<<<<"text", JStr(<<"words">>)>>>>)>>>>)}

TwitterFields ==
    {"tweet", "text", "media", "mediaURLs", "video", "videos", "media_extended",
     "extended_entities", "combinedMediaUrl"}

\* an otherwise well-formed video tweet in which one field, or one nested value
\* of a media entry, has an unexpected type
MistypedTweets ==
    {Obj(<<<<"video_info", JNum(1)>>, <<f, w>>,
           <<"media_extended", JList(<<VideoEntry(<<Variant(VideoLow, JNum(100))>>)>>)>>>>)
        : f \in TwitterFields \ {"media_extended"}, w \in WrongTyped \cup {JNull}}
    \cup
    {Obj(<<<<"media", JList(<<Obj(<<<<"type", type>>, <<"url", url>>,
                                     <<"variants", JList(<<Variant(VideoLow, bitrate)>>)>>>>)>>)>>>>)
        : type \in WrongTyped \cup {JStr(<<"video">>), JStr(<<"photo">>)},
          url \in WrongTyped \cup {Absent},
          bitrate \in WrongTyped \cup {Absent}}

TwitterPayloads ==
    ExtendedPayloads \cup VideoTweets \cup PhotoTweets \cup NoMediaTweets \cup MistypedTweets

\* ---- TikTok extractor results (what _extract_info returned)
\* the shapes an image of a photo post comes in
TikTokImages ==
    {JStr(PhotoA),
     JStr(Blank),
     Obj(<<<<"url_list", JList(<<JStr(PhotoARelative), JStr(PhotoB)>>)>>>>),
     Obj(<<<<"display_image", Obj(<<<<"url_list", JList(<<JStr(PhotoC)>>)>>>>)>>>>),
     Obj(<<<<"imageURL", Obj(<<<<"urlList", JList(<<JStr(PhotoFtp), JStr(PhotoB)>>)>>>>)>>>>)}

Info(detail, url) ==
    Obj(<<<<"_aweme_detail", detail>>, <<"url", url>>, <<"uploader", JStr(<<"tester">>)>>>>)

\* the stream URL yt-dlp resolved for a video post, if any
StreamUrls == {Absent, JStr(<<>>), JStr(VideoLow), JStr(VideoMid)}

PhotoPosts ==
    {Info(Obj(<<<<"desc", JStr(<<"words">>)>>,
                <<"imagePost", Obj(<<<<"images", JList(images)>>, <<"cover", cover>>>>)>>,
                <<"image_list", extra>>>>), url)
        : images \in SeqsUpTo(TikTokImages, MaxItems),
          cover \in {Absent, Obj(<<<<"imageURL", Obj(<<<<"urlList", JList(<<JStr(PhotoB)>>)>>>>)>>>>)},
          extra \in {Absent, JList(<<JStr(PhotoA), JStr(PhotoC)>>)},
          url \in {Absent, JStr(VideoLow)}}

\* an image of image_post_info.images: its URL, and the same URL once more,
\* protocol-relative, under display_image
NestedImage(url, relative) ==
    Obj(<<<<"image_url", JStr(url)>>,
          <<"display_image", Obj(<<<<"url_list", JList(<<JStr(relative)>>)>>>>)>>>>)

\* a post with a top-level `images` list and more images under
\* image_post_info, some of them listed in both places
NestedAlbumPosts ==
    {Info(Obj(<<<<"desc", JStr(<<"words">>)>>,
                <<"images", JList(primary)>>,
                <<"image_post_info", Obj(<<<<"images", JList(nested)>>>>)>>>>), Absent)
        : primary \in SeqsUpTo({JStr(PhotoA), JStr(PhotoB), JStr(ExtraBRelative)}, MaxItems) \ {<<>>},
          nested \in SeqsUpTo({NestedImage(ExtraA, ExtraARelative),
                               NestedImage(ExtraB, ExtraBRelative)}, MaxItems) \ {<<>>}}

VideoInfos ==
    {Info(Obj(<<<<"desc", desc>>, <<"video", video>>>>), url)
        : desc \in {Absent, JStr(<<"words">>)},
          video \in {Absent, Obj(<<<<"cover", Obj(<<<<"url_list", JList(<<JStr(PhotoA)>>)>>>>)>>>>)},
          url \in StreamUrls}

MistypedInfos ==
    {Info(w, JStr(VideoLow)) : w \in WrongTyped \cup {JNull}}
    \cup
    {Info(Obj(<<<<f, w>>>>), JStr(VideoLow))
        : f \in {"imagePost", "image_post_info", "images", "video", "author", "desc"},
          w \in WrongTyped}

TikTokInfos == PhotoPosts \cup NestedAlbumPosts \cup VideoInfos \cup MistypedInfos

\* ---- the calls
Returned(call, payload, res) ==
    [k |-> "returned", call |-> call, payload |-> payload, res |-> res]

\* RedditDownloader._build_asset(post)
RedditCall ==
    /\ ex.k = "idle"
    /\ \E post \in RedditPosts : ex' = Returned("reddit", post, RedditBuildAsset(post))
    /\ UNCHANGED <<tokenVars, album, tg>>

\* TwitterDownloader._parse_payload(payload)
TwitterCall ==
    /\ ex.k = "idle"
    /\ \E payload \in TwitterPayloads :
           ex' = Returned("twitter", payload, TwitterParsePayload(payload))
    /\ UNCHANGED <<tokenVars, album, tg>>

\* TikTokDownloader.fetch_asset(url), from the point _extract_info returned info
TikTokFetchAssetCall ==
    /\ ex.k = "idle"
    /\ \E info \in TikTokInfos : ex' = Returned("tiktok", info, TikTokFetchAsset(info))
    /\ UNCHANGED <<tokenVars, album, tg>>

\* TikTokDownloader.fetch_photos(url), from the point _extract_info returned info
TikTokFetchPhotosCall ==
    /\ ex.k = "idle"
    /\ \E info \in TikTokInfos :
           ex' = Returned("tiktok_photos", info, TikTokFetchPhotos(info))
    /\ UNCHANGED <<tokenVars, album, tg>>

ExtractNext ==
    \/ RedditCall
    \/ TwitterCall
    \/ TikTokFetchAssetCall
    \/ TikTokFetchPhotosCall

InitExtract == TokenIdle /\ album = Idle /\ ex = Idle /\ tg = Idle

SpecExtract == InitExtract /\ [][ExtractNext]_vars

\* ------------------------------------------- properties of extractor results
\* the typed error of the platform a call belongs to
TypedError(call) ==
    CASE call = "reddit" -> "RedditDownloadError"
      [] call = "twitter" -> "TwitterDownloadError"
      [] OTHER -> "TikTokDownloadError"

\* the tweet object _parse_payload works on
TweetOf(payload) ==
    IF Truthy(SafeGet(payload, "tweet")) THEN Get(payload, "tweet") ELSE payload

\* the photo or video payload carries no media the call could return
NoMediaInPayload ==
    \/ ex.call = "reddit" /\ ex.payload \in NoMediaPosts
    \/ ex.call = "twitter" /\ ex.payload \in NoMediaTweets
    \/ ex.call = "tiktok" /\ ex.payload \in VideoInfos /\ ~Truthy(Get(ex.payload, "url"))
    \/ ex.call = "tiktok_photos" /\ ex.payload \in VideoInfos

Accepted(c) ==
    /\ c.c = "cand"
    /\ IsStr(c.url)
    /\ c.url.s # <<>>
    /\ TwitterIsVideoUrl(TwitterNormalizeUrl(c.url.s))

\* the declared bitrate of a candidate, 0 when it declares none
Score(c) == IF IsNum(c.bitrate) THEN c.bitrate.n ELSE 0

VideoTweetReturned ==
    /\ ex.k = "returned"
    /\ ex.call = "twitter"
    /\ (ex.payload \in ExtendedPayloads \/ ex.payload \in VideoTweets)

AcceptedCandidates ==
    SelectSeq(VideoCandidates(TweetOf(ex.payload), ex.payload), Accepted)

\* seq[i] has the greatest score of seq and is the first to have it
FirstMaximum(seq, i, score(_)) ==
    /\ \A j \in 1..Len(seq) : score(seq[j]) <= score(seq[i])
    /\ \A j \in 1..(i - 1) : score(seq[j]) < score(seq[i])

\* C5: of the video candidates _extract_video finds, in scan order over all
\* containers, the returned video_url is the one with the greatest declared
\* bitrate, the first of them among equals, a candidate without a bitrate
\* counting as 0; with no candidate there is no video_url
C5_MaxBitrateFirst ==
    VideoTweetReturned =>
        IF AcceptedCandidates = <<>> THEN ~Truthy(ex.res.video)
        ELSE /\ ex.res.k = "asset"
             /\ \E i \in 1..Len(AcceptedCandidates) :
                    /\ ex.res.video = JStr(TwitterNormalizeUrl(AcceptedCandidates[i].url.s))
                    /\ FirstMaximum(AcceptedCandidates, i, Score)

\* two candidates without a bitrate and with different URLs: the first is kept
C5_Witness ==
    /\ VideoTweetReturned
    /\ Len(AcceptedCandidates) >= 2
    /\ AcceptedCandidates[1].bitrate = JNull
    /\ AcceptedCandidates[2].bitrate = JNull
    /\ AcceptedCandidates[1].url # AcceptedCandidates[2].url
    /\ \A j \in 1..Len(AcceptedCandidates) : Score(AcceptedCandidates[j]) = 0
    /\ ex.res.video = JStr(TwitterNormalizeUrl(AcceptedCandidates[1].url.s))

\* C6: every URL in the photos and the video_url of a returned asset starts
\* with http:// or https://
C6_HttpOnly ==
    (ex.k = "returned" /\ ex.res.k = "asset") =>
        /\ \A i \in 1..Len(ex.res.photos) : StartsWithHttp(ex.res.photos[i])
        /\ Truthy(ex.res.video) => (IsStr(ex.res.video) /\ StartsWithHttp(ex.res.video.s))

\* ---- C7, C8
\* seq without the elements that already occur earlier in it
RECURSIVE FirstSeen(_)
FirstSeen(seq) ==
    IF seq = <<>> THEN <<>>
    ELSE LET front == SubSeq(seq, 1, Len(seq) - 1)
             last == seq[Len(seq)]
         IN  IF \E i \in 1..Len(front) : front[i] = last THEN FirstSeen(front)
             ELSE Append(FirstSeen(front), last)

NoDuplicates(seq) == \A i, j \in 1..Len(seq) : seq[i] = seq[j] => i = j

\* the strings among values, in order
Strings(values) ==
    LET strs == SelectSeq(values, LAMBDA v : IsStr(v)) IN [i \in 1..Len(strs) |-> strs[i].s]

\* the URL a source object holds, when it is a non-blank string
SourceUrl(source) ==
    LET url == Or(SafeGet(source, "u"), SafeGet(source, "url"))
    IN  IF IsStr(url) /\ Strip(url.s) # <<>> THEN url ELSE JNull

\* the URL of a gallery entry: that of `s`, else that of the first preview of
\* `p` which holds one
EntryUrl(entry) ==
    LET previews == IF IsList(SafeGet(entry, "p")) THEN Get(entry, "p").xs ELSE <<>>
        holding == {i \in 1..Len(previews) : Truthy(SourceUrl(previews[i]))}
    IN  IF Truthy(SourceUrl(SafeGet(entry, "s"))) THEN SourceUrl(Get(entry, "s"))
        ELSE IF holding = {} THEN JNull
        ELSE SourceUrl(previews[CHOOSE i \in holding : \A j \in holding : i <= j])

\* what a gallery entry contributes: its URL as an http(s) URL when the entry is valid
Contribution(entry) ==
    IF IsMap(entry) /\ IsStr(Get(entry, "status")) /\ Lower(Get(entry, "status").s) = <<"valid">>
    THEN RedditNormalizeUrl(EntryUrl(entry))
    ELSE JNull

\* the ids gallery_data.items lists
ListedIds(post) ==
    LET items == SafeGet(SafeGet(post, "gallery_data"), "items")
    IN  IF IsList(items) THEN [i \in 1..Len(items.xs) |-> Get(items.xs[i], "media_id").s[1]]
        ELSE <<>>

\* the contributions of the entries named by ids, in that order
Contributions(post, ids) ==
    Strings([i \in 1..Len(ids) |-> Contribution(Get(Get(post, "media_metadata"), ids[i]))])

\* the photo candidates of the payload just handled, normalized, in the order
\* the extractor meets them
PhotoCandidates ==
    CASE ex.call = "reddit" ->
             Contributions(ex.payload,
                           IF ListedIds(ex.payload) = <<>> THEN <<"m1", "m2", "m3">>
                           ELSE ListedIds(ex.payload))
      [] ex.call = "twitter" ->
             LET media == SafeGet(TweetOf(ex.payload), "media")
                 flat == Strings(Get(ex.payload, "mediaURLs").xs)
                 images == SelectSeq(flat, LAMBDA u : ~Contains(u, "video.twimg.com"))
             IN  IF IsList(media)
                 THEN [i \in 1..Len(media.xs) |->
                          TwitterNormalizeUrl(Get(media.xs[i], "media_url_https").s)]
                 ELSE [i \in 1..Len(images) |-> TwitterNormalizeUrl(images[i])]
      [] OTHER ->
             LET detail == Get(ex.payload, "_aweme_detail")
                 post == Get(detail, "imagePost")
                 raw == IterItems(<<Get(post, "images"), Get(post, "cover"),
                                    Get(detail, "image_list")>>)
             IN  Strings([i \in 1..Len(raw) |-> NormalizePhotoUrl(raw[i])])

PhotoPayloadReturned ==
    /\ ex.k = "returned"
    /\ \/ ex.call = "reddit" /\ ex.payload \in GalleryPosts
       \/ ex.call = "twitter" /\ ex.payload \in PhotoTweets
       \/ ex.call \in {"tiktok", "tiktok_photos"} /\ ex.payload \in PhotoPosts

\* C7: the photos of a returned asset hold no URL twice, and they are the
\* normalized photo candidates of the payload with every repeated occurrence
\* dropped and the order of first occurrence kept
C7_FirstSeenNoDuplicates ==
    /\ (ex.k = "returned" /\ ex.res.k = "asset") => NoDuplicates(ex.res.photos)
    /\ PhotoPayloadReturned => ex.res.photos = FirstSeen(PhotoCandidates)

\* candidates [a, b, a, c, b] gave [a, b, c]
C7_Witness ==
    /\ PhotoPayloadReturned
    /\ ex.call = "reddit"
    /\ ListedIds(ex.payload) = <<"m1", "m2", "m1", "m3", "m2">>
    /\ Len(PhotoCandidates) = 5
    /\ Cardinality({PhotoCandidates[i] : i \in 1..5}) = 3
    /\ ex.res.photos = <<PhotoCandidates[1], PhotoCandidates[2], PhotoCandidates[4]>>

\* gallery_data.items lists ids and each of them names a valid entry of
\* media_metadata whose URL is an http(s) or protocol-relative URL
ListedGalleryReturned ==
    /\ ex.k = "returned"
    /\ ex.call = "reddit"
    /\ ex.payload \in GalleryPosts
    /\ ListedIds(ex.payload) # <<>>
    /\ \A i \in 1..Len(ListedIds(ex.payload)) :
           Truthy(Contribution(Get(Get(ex.payload, "media_metadata"), ListedIds(ex.payload)[i])))

ExtendedVariants ==
    LET extended == Or(SafeGet(TweetOf(ex.payload), "media_extended"),
                       Get(ex.payload, "media_extended"))
    IN  Get(extended.xs[1], "variants").xs

ExtendedVideoReturned ==
    /\ ex.k = "returned"
    /\ ex.call = "twitter"
    /\ ex.payload \in ExtendedPayloads
    /\ Len(ExtendedVariants) >= 2

VariantBitrate(v) == IF IsNum(Get(v, "bitrate")) THEN Get(v, "bitrate").n ELSE 0

VariantUrl(v) == JStr(TwitterNormalizeUrl(Get(v, "url").s))

\* the variants whose URL _is_video_url recognises
RecognisedVariants ==
    SelectSeq(ExtendedVariants, LAMBDA v : TwitterIsVideoUrl(VariantUrl(v).s))

\* C9 as stated: with `media` empty and one video entry with several variants in
\* media_extended, the video_url is the URL of a variant of the highest bitrate
C9_HighestBitrateVariant ==
    ExtendedVideoReturned =>
        /\ ex.res.k = "asset"
        /\ \E i \in 1..Len(ExtendedVariants) :
               /\ \A j \in 1..Len(ExtendedVariants) :
                      VariantBitrate(ExtendedVariants[j]) <= VariantBitrate(ExtendedVariants[i])
               /\ ex.res.video = VariantUrl(ExtendedVariants[i])

\* C9 amended: the video_url is the URL of the first variant of the highest
\* bitrate among the variants whose URL is recognised as a video URL, and when
\* no variant has such a URL the call raises TwitterDownloadError
C9_HighestRecognisedVariant ==
    ExtendedVideoReturned =>
        IF RecognisedVariants = <<>> THEN ex.res = Raised("TwitterDownloadError")
        ELSE /\ ex.res.k = "asset"
             /\ ex.res.photos = <<>>
             /\ \E i \in 1..Len(RecognisedVariants) :
                    /\ ex.res.video = VariantUrl(RecognisedVariants[i])
                    /\ FirstMaximum(RecognisedVariants, i, VariantBitrate)

\* a variant at 100 followed by another at 900, both recognised: the second is returned
C9_Witness ==
    /\ ExtendedVideoReturned
    /\ ExtendedVariants = <<Variant(VideoLow, JNum(100)), Variant(VideoHigh, JNum(900))>>
    /\ ex.res.video = JStr(<<"https:">> \o VideoHigh)

\* C10: whatever is absent or mistyped in the payload, the Reddit and Twitter
\* extractors raise nothing but the typed error of their platform
C10_OnlyTypedErrors ==
    (ex.k = "returned" /\ ex.call \in {"reddit", "twitter"} /\ ex.res.k = "raise") =>
        ex.res.e = TypedError(ex.call)

\* ============================================================== telegram
\* A message text is a sequence of pieces: a scheme, a host, "/", a path
\* segment, a blank, or some other word.
Schemes == {"https://", "http://"}

\* (?:t|telegram)\.me under re.IGNORECASE
IsTelegramHost(piece) == piece \in {"t.me", "telegram.me", "T.ME"}

\* \d+ takes the whole segment
SegmentValue(piece) ==
    CASE piece = "123" -> 123
      [] piece = "456" -> 456
      [] piece = "007" -> 7
      [] OTHER -> -1

IsDigits(piece) == SegmentValue(piece) >= 0

\* [A-Za-z0-9_]+ takes the whole segment
IsWord(piece) == IsDigits(piece) \/ piece \in {"c", "C", "durov", "a_b"}

PieceAt(text, i) == IF i \in 1..Len(text) THEN text[i] ELSE ""

NoMatch == [matched |-> FALSE]

\* telegram_fetcher.py:32-35: TELEGRAM_LINK_RE tried at position i.  The
\* alternatives are tried in the order the pattern writes them: first
\* username/public_message_id, then c/channel_id/channel_message_id.
MatchAt(text, i) ==
    LET h == IF PieceAt(text, i) \in Schemes THEN i + 1 ELSE i
    IN  IF ~(IsTelegramHost(PieceAt(text, h)) /\ PieceAt(text, h + 1) = "/") THEN NoMatch
        ELSE IF /\ IsWord(PieceAt(text, h + 2))
                /\ PieceAt(text, h + 3) = "/"
                /\ IsDigits(PieceAt(text, h + 4))
        THEN [matched |-> TRUE, link |-> SubSeq(text, i, h + 4),
              username |-> text[h + 2], public_message_id |-> text[h + 4],
              channel_id |-> None, channel_message_id |-> None]
        ELSE IF /\ PieceAt(text, h + 2) \in {"c", "C"}
                /\ PieceAt(text, h + 3) = "/"
                /\ IsDigits(PieceAt(text, h + 4))
                /\ PieceAt(text, h + 5) = "/"
                /\ IsDigits(PieceAt(text, h + 6))
        THEN [matched |-> TRUE, link |-> SubSeq(text, i, h + 6),
              username |-> None, public_message_id |-> None,
              channel_id |-> text[h + 4], channel_message_id |-> text[h + 6]]
        ELSE NoMatch

\* TELEGRAM_LINK_RE.search(text): the match at the leftmost position that has one
Search(text) ==
    LET hits == {i \in 1..Len(text) : MatchAt(text, i).matched}
    IN  IF hits = {} THEN NoMatch
        ELSE MatchAt(text, CHOOSE i \in hits : \A j \in hits : i <= j)

TelegramLink(raw_url, identifier, message_id, kind) ==
    [raw_url |-> raw_url, identifier |-> identifier, message_id |-> message_id,
     kind |-> kind]

NoLink == [kind |-> None]

\* telegram_fetcher.py:83-117
ExtractTelegramLink(text) ==
    LET match == Search(text)
        raw_url == IF match.link[1] \in Schemes THEN match.link
                   ELSE <<"https://">> \o match.link
    IN  IF text = <<>> THEN NoLink
        ELSE IF ~match.matched THEN NoLink
        ELSE IF match.username # None
        THEN TelegramLink(raw_url, match.username,
                          SegmentValue(match.public_message_id), "username")
        ELSE IF match.channel_id = None THEN NoLink
        ELSE TelegramLink(raw_url, match.channel_id,
                          SegmentValue(match.channel_message_id), "channel")

\* ---- message texts
Segments == {"c", "durov", "123", "456", "007", "a-b"}

\* "/" before every segment
RECURSIVE Path(_)
Path(segments) ==
    IF segments = <<>> THEN <<>> ELSE <<"/", Head(segments)>> \o Path(Tail(segments))

\* texts with at most one host followed by a path, possibly after other words
\* and possibly followed by a second, public link
Texts ==
    {before \o scheme \o <<host>> \o Path(segments) \o after
        : before \in {<<>>, <<"see", " ">>},
          scheme \in {<<>>, <<"https://">>},
          host \in {"t.me", "telegram.me", "example.com"},
          segments \in SeqsUpTo(Segments, MaxSegments),
          after \in {<<>>, <<" ", "T.ME", "/", "a_b", "/", "456">>}}

\* ---- TelegramLinkFilter and handle_telegram_link
\* errors fetch raises before it creates the scratch directory
EarlyFetchErrors ==
    {"TelethonCredentialsError", "ChannelPrivateError", "ChannelInvalidError",
     "MessageIdInvalidError", "TelegramMessageNotFoundError", "OSError"}

\* telegram.py:75-108: the status text chosen for an exception
StatusFor(e) ==
    CASE e = "TelethonCredentialsError" -> "session"
      [] e = "ChannelPrivateError" -> "no access"
      [] e = "ChannelInvalidError" -> "unknown channel"
      [] e \in {"MessageIdInvalidError", "TelegramMessageNotFoundError"} -> "no message"
      [] e = "TelegramMediaDownloadError" -> "download failed"
      [] OTHER -> "unexpected"

\* telegram.py:44-49: TelegramLinkFilter.__call__ on an incoming message; the
\* handler runs only when the filter found a link.  created / removed count
\* the scratch directories made and deleted for the update, exists tells
\* whether the directory is on disk, result is the handler's local `result`.
TgFilter ==
    /\ tg.k = "idle"
    /\ \E text \in Texts, fetcher \in BOOLEAN :
           LET link == ExtractTelegramLink(text)
           IN  tg' = [k |-> IF link = NoLink THEN "ignored" ELSE "matched",
                      text |-> text, link |-> link, fetcher |-> fetcher,
                      created |-> 0, removed |-> 0, exists |-> FALSE,
                      result |-> "None", error |-> None, status |-> None]
    /\ UNCHANGED <<tokenVars, album, ex>>

\* telegram.py:56-64: the reply, then the check that a fetcher is configured
TgReply ==
    /\ tg.k = "matched"
    /\ tg' = IF tg.fetcher THEN [tg EXCEPT !.k = "fetching", !.text = <<>>]
             ELSE [tg EXCEPT !.k = "done", !.text = <<>>, !.status = "disabled"]
    /\ UNCHANGED <<tokenVars, album, ex>>

\* telegram.py:56: message.reply raises, the handler has not entered its try
TgReplyFail ==
    /\ tg.k = "matched"
    /\ tg' = [tg EXCEPT !.k = "done", !.text = <<>>, !.error = "TelegramError"]
    /\ UNCHANGED <<tokenVars, album, ex>>

\* telegram_fetcher.py:131-137: fetch raises in _client, _resolve_entity or
\* get_messages, or finds no message; telegram.py:75-108 picks the status
TgFetchFail ==
    /\ tg.k = "fetching"
    /\ \E e \in EarlyFetchErrors :
           tg' = [tg EXCEPT !.k = "status", !.error = e, !.status = StatusFor(e)]
    /\ UNCHANGED <<tokenVars, album, ex>>

\* telegram_fetcher.py:139-157 with media_kind None: a result without file and
\* without directory; telegram.py:69-71
TgFetchNoMedia ==
    /\ tg.k = "fetching"
    /\ tg' = [tg EXCEPT !.k = "status", !.result = "no media", !.status = "no media"]
    /\ UNCHANGED <<tokenVars, album, ex>>

\* telegram_fetcher.py:143-144: media_kind set, tempfile.mkdtemp
TgCreateDir ==
    /\ tg.k = "fetching"
    /\ tg' = [tg EXCEPT !.k = "downloading", !.created = @ + 1, !.exists = TRUE]
    /\ UNCHANGED <<tokenVars, album, ex>>

\* telegram_fetcher.py:145-157: the download gave a file, fetch returns the
\* result that carries the directory
TgDownloadOk ==
    /\ tg.k = "downloading"
    /\ tg' = [tg EXCEPT !.k = "sending", !.result = "media"]
    /\ UNCHANGED <<tokenVars, album, ex>>

\* telegram_fetcher.py:145-147: download_media returned nothing, fetch raises
\* TelegramMediaDownloadError; telegram.py:96-101
TgDownloadNothing ==
    /\ tg.k = "downloading"
    /\ tg' = [tg EXCEPT !.k = "status", !.error = "TelegramMediaDownloadError",
                        !.status = StatusFor("TelegramMediaDownloadError")]
    /\ UNCHANGED <<tokenVars, album, ex>>

\* telegram_fetcher.py:145: download_media (or the disconnect of line 177)
\* raised; telegram.py:102-108
TgDownloadRaise ==
    /\ tg.k = "downloading"
    /\ tg' = [tg EXCEPT !.k = "status", !.error = "OSError", !.status = StatusFor("OSError")]
    /\ UNCHANGED <<tokenVars, album, ex>>

\* telegram.py:73-74: _send_media returned
TgSendOk ==
    /\ tg.k = "sending"
    /\ tg' = [tg EXCEPT !.k = "status", !.status = "sent"]
    /\ UNCHANGED <<tokenVars, album, ex>>

\* telegram.py:73, 102-108: _send_media raised
TgSendFail ==
    /\ tg.k = "sending"
    /\ tg' = [tg EXCEPT !.k = "status", !.error = "TelegramError",
                        !.status = StatusFor("TelegramError")]
    /\ UNCHANGED <<tokenVars, album, ex>>

\* telegram.py:135-149: _update_status, which may itself raise; either way the
\* handler goes on to its finally clause
TgUpdateStatus ==
    /\ tg.k = "status"
    /\ \E delivered \in BOOLEAN :
           tg' = [tg EXCEPT !.k = "finally",
                            !.error = IF delivered THEN @ ELSE "TelegramError"]
    /\ UNCHANGED <<tokenVars, album, ex>>

\* telegram.py:109-111 with TelegramMediaResult.cleanup (telegram_fetcher.py:67-80)
TgFinally ==
    /\ tg.k = "finally"
    /\ tg' = IF tg.result = "media"
             THEN [tg EXCEPT !.k = "done", !.removed = @ + 1, !.exists = FALSE]
             ELSE [tg EXCEPT !.k = "done"]
    /\ UNCHANGED <<tokenVars, album, ex>>

TelegramNext ==
    \/ TgFilter
    \/ TgReply
    \/ TgReplyFail
    \/ TgFetchFail
    \/ TgFetchNoMedia
    \/ TgCreateDir
    \/ TgDownloadOk
    \/ TgDownloadNothing
    \/ TgDownloadRaise
    \/ TgSendOk
    \/ TgSendFail
    \/ TgUpdateStatus
    \/ TgFinally

InitTelegram == TokenIdle /\ album = Idle /\ ex = Idle /\ tg = Idle

SpecTelegram == InitTelegram /\ [][TelegramNext]_vars

\* ---- C11
\* the position of the first Telegram host of a text, 0 when it has none
FirstHost(text) ==
    LET hosts == {i \in 1..Len(text) : IsTelegramHost(text[i])}
    IN  IF hosts = {} THEN 0 ELSE CHOOSE i \in hosts : \A j \in hosts : i <= j

\* the first link of the text has the form t.me/c/<channelId>/<messageId>
ChannelForm(text) ==
    LET h == FirstHost(text)
    IN  /\ h > 0
        /\ PieceAt(text, h + 1) = "/"
        /\ PieceAt(text, h + 2) = "c"
        /\ PieceAt(text, h + 3) = "/"
        /\ IsDigits(PieceAt(text, h + 4))
        /\ PieceAt(text, h + 5) = "/"
        /\ IsDigits(PieceAt(text, h + 6))

\* the first link of the text has the form t.me/<username>/<messageId>
UsernameForm(text) ==
    LET h == FirstHost(text)
    IN  /\ h > 0
        /\ ~ChannelForm(text)
        /\ PieceAt(text, h + 1) = "/"
        /\ IsWord(PieceAt(text, h + 2))
        /\ PieceAt(text, h + 3) = "/"
        /\ IsDigits(PieceAt(text, h + 4))

\* C11: the link extract_telegram_link returns records the form that matched:
\* kind "channel" with the channel id and the message id for
\* t.me/c/<channelId>/<messageId>, kind "username" with the username and the
\* message id for t.me/<username>/<messageId>
C11_TaggedIdentifier ==
    tg.k \in {"matched", "ignored"} =>
        LET h == FirstHost(tg.text)
        IN  /\ ChannelForm(tg.text) =>
                /\ tg.link.kind = "channel"
                /\ tg.link.identifier = tg.text[h + 4]
                /\ tg.link.message_id = SegmentValue(tg.text[h + 6])
            /\ UsernameForm(tg.text) =>
                /\ tg.link.kind = "username"
                /\ tg.link.identifier = tg.text[h + 2]
                /\ tg.link.message_id = SegmentValue(tg.text[h + 4])

\* C12: when the handler has finished, every scratch directory fetch created
\* for the request has been removed, and none was removed more than once
C12_ScratchRemovedOnce ==
    /\ tg.k \notin {"idle", "ignored", "matched"} => tg.removed <= tg.created
    /\ tg.k = "done" => (tg.removed = tg.created /\ ~tg.exists)

\* ---- C20
\* a URL with the scheme put before a leading //
WithScheme(url) == IF url # <<>> /\ url[1] = "//" THEN <<"https:">> \o url ELSE url

\* the top-level images of the post, then the images under image_post_info,
\* each list in its own order
PrimaryThenNested(info) ==
    LET detail == Get(info, "_aweme_detail")
        primary == Get(detail, "images").xs
        nested == Get(Get(detail, "image_post_info"), "images").xs
    IN  [i \in 1..Len(primary) |-> WithScheme(primary[i].s)]
        \o [i \in 1..Len(nested) |-> Get(nested[i], "image_url").s]

\* C20: for a post with a top-level `images` list and extra images under
\* image_post_info, the album lists the top-level images first, in their
\* order, then the nested ones in their order, every URL once (compared after
\* the scheme has been put before a leading //).
C20_PrimaryThenNested ==
    (/\ ex.k = "returned"
     /\ ex.call \in {"tiktok", "tiktok_photos"}
     /\ ex.payload \in NestedAlbumPosts)
        => (/\ ex.res.k = "asset"
            /\ ex.res.photos = FirstSeen(PrimaryThenNested(ex.payload)))


\* ------------------------------------------------ priority of video sources
\* the raw values one video section offers, in the order they are tried
SectionSources(section) ==
    IF ~IsMap(section) THEN <<>>
    ELSE IF IsMap(Get(section, "reddit_video"))
    THEN [i \in 1..4 |-> Get(Get(section, "reddit_video"),
                             <<"fallback_url", "scrubber_media_url", "hls_url", "dash_url">>[i])]
    ELSE IF Get(section, "type") = JStr(<<"video">>)
    THEN <<Or(Get(section, "fallback_url"), Get(section, "url"))>>
    ELSE <<>>

\* the raw values a post's own fields offer, in priority order
OwnSources(post) ==
    LET direct == Or(Get(post, "url_overridden_by_dest"), Get(post, "url"))
    IN  SectionSources(Get(post, "secure_media")) \o SectionSources(Get(post, "media"))
        \o SectionSources(SafeGet(Get(post, "preview"), "reddit_video_preview"))
        \o (IF IsStr(direct) /\ RedditIsVideoUrl(direct.s) THEN <<direct>> ELSE <<>>)

Usable(value) == IsStr(value) /\ Truthy(RedditNormalizeUrl(value))

\* the normalized URL of the first usable source, JNull when there is none
FirstUsable(sources) ==
    LET hits == {i \in 1..Len(sources) : Usable(sources[i])}
    IN  IF hits = {} THEN JNull
        ELSE RedditNormalizeUrl(sources[CHOOSE i \in hits : \A j \in hits : i <= j])

\* C24: _extract_video returns the normalized URL of the first usable source
\* in the order secure_media, media, preview.reddit_video_preview (in a
\* reddit_video object fallback_url, scrubber_media_url, hls_url, dash_url;
\* otherwise a section typed "video"), then the direct URL when it looks like
\* a video.
C24_FirstUsableSourceWins ==
    (ex.k = "returned" /\ ex.call = "reddit" /\ Truthy(FirstUsable(OwnSources(ex.payload)))) =>
        RedditExtractVideo(ex.payload) = Ok(FirstUsable(OwnSources(ex.payload)))

\* the first video found in the cross-post parents, JNull when there is none
RECURSIVE FirstParentVideo(_)
FirstParentVideo(parents) ==
    IF parents = <<>> THEN JNull
    ELSE IF IsMap(Head(parents)) /\ RedditExtractVideo(Head(parents)).r = "ok"
            /\ Truthy(RedditExtractVideo(Head(parents)).v)
    THEN RedditExtractVideo(Head(parents)).v
    ELSE FirstParentVideo(Tail(parents))

\* C25: when the post's own fields yield no usable video URL and the post has
\* a crosspost_parent_list, _extract_video returns the first video found in
\* the parents, also when the direct URL looks like a video and is rejected
\* by the normalizer.
C25_ParentFallback ==
    (/\ ex.k = "returned" /\ ex.call = "reddit"
     /\ ~Truthy(FirstUsable(OwnSources(ex.payload)))
     /\ IsList(Get(ex.payload, "crosspost_parent_list"))) =>
        RedditExtractVideo(ex.payload)
            = Ok(FirstParentVideo(Get(ex.payload, "crosspost_parent_list").xs))


\* C26: in a microblogging asset whose tweet has no media array, so that the
\* photos come from the flat mediaURLs list, no photo is a URL the extractor
\* accepts as a video, and no photo is the asset's video_url.
C26_FlatPhotosAreNotVideos ==
    (/\ ex.k = "returned" /\ ex.call = "twitter" /\ ex.res.k = "asset"
     /\ ~Truthy(Get(TweetOf(ex.payload), "media"))) =>
        \A i \in 1..Len(ex.res.photos) :
            /\ ~TwitterIsVideoUrl(ex.res.photos[i])
            /\ Truthy(ex.res.video) => ex.res.photos[i] # ex.res.video.s

\* =========================================================== reddit post id
\* RedditDownloader._extract_post_id(post_url).  A post URL is given by what
\* urlparse makes of it: netloc as a sequence of pieces (empty when the link
\* has no scheme) and path as the list path.split("/") yields, empty strings
\* included.  The query and the fragment are cut off by urlparse, so the two
\* split calls of line 109 leave a path part as it is.
MaxParts == 3

Netlocs == {<<"redd.it">>, <<"REDD.IT">>, <<"v.", "redd.it">>, <<"www.", "reddit.com">>, <<>>}

Parts == {"", "comments", "Comments", "gallery", "poll", "r", "abc123", "my_title"}

PostUrls == {[netloc |-> n, path |-> q] : n \in Netlocs, q \in SeqsUpTo(Parts, MaxParts)}

\* str.isalnum() on a path part
IsAlnum(part) == part \in {"comments", "Comments", "gallery", "poll", "r", "abc123"}

\* [part for part in path.split("/") if part]
PathParts(path) == SelectSeq(path, LAMBDA part : part # "")

\* the for loop of lines 95-98: the part after the first "comments" that has one
AfterComments(parts) ==
    LET hits == {i \in 1..Len(parts) : LowerPiece(parts[i]) = "comments" /\ i + 1 <= Len(parts)}
    IN  IF hits = {} THEN None
        ELSE parts[(CHOOSE i \in hits : \A j \in hits : i <= j) + 1]

PostId(id) == [k |-> "id", id |-> id]

\* lines 91-104: the candidate id, None when no branch assigns it
PostIdCandidate(netloc, parts) ==
    IF EndsWithAny(Lower(netloc), {"redd.it"})
    THEN IF parts # <<>> THEN parts[1] ELSE None
    ELSE LET c == AfterComments(parts)
         IN  IF c # None THEN c
             ELSE IF parts = <<>> THEN None
             ELSE IF LowerPiece(parts[1]) \in {"gallery", "poll"} /\ Len(parts) >= 2
                  THEN parts[2]
             ELSE IF Len(parts) = 1 THEN parts[1]
             ELSE None

ExtractPostId(url) ==
    LET candidate == PostIdCandidate(url.netloc, PathParts(url.path))
    IN  IF candidate = None THEN Raised("RedditDownloadError")
        ELSE IF ~IsAlnum(candidate) THEN Raised("RedditDownloadError")
        ELSE PostId(candidate)

ExtractPostIdCall ==
    /\ ex.k = "idle"
    /\ \E url \in PostUrls : ex' = Returned("reddit_post_id", url, ExtractPostId(url))
    /\ UNCHANGED <<tokenVars, album, tg>>

PostIdNext == ExtractPostIdCall

SpecPostId == InitExtract /\ [][PostIdNext]_vars

\* the four path shapes of a post link, on the parts of the path
ShortShape(url) ==
    /\ url.netloc # <<>>
    /\ LowerPiece(url.netloc[Len(url.netloc)]) = "redd.it"
    /\ PathParts(url.path) # <<>>

CommentsShape(url) ==
    LET parts == PathParts(url.path)
    IN  \E i \in 1..(Len(parts) - 1) : LowerPiece(parts[i]) = "comments"

PrefixShape(url) ==
    LET parts == PathParts(url.path)
    IN  Len(parts) >= 2 /\ LowerPiece(parts[1]) \in {"gallery", "poll"}

\* C21: _extract_post_id returns an id only for a URL of one of the four path
\* shapes (/<id> on the short domain, .../comments/<id>, /gallery/<id>,
\* /poll/<id>); a URL of none of these shapes fails with RedditDownloadError,
\* and an id that is returned is alphanumeric.
C21_FourShapesOnly ==
    (ex.k = "returned" /\ ex.call = "reddit_post_id") =>
        /\ ex.res.k = "id" =>
               /\ ShortShape(ex.payload) \/ CommentsShape(ex.payload) \/ PrefixShape(ex.payload)
               /\ IsAlnum(ex.res.id)
        /\ ~(ShortShape(ex.payload) \/ CommentsShape(ex.payload) \/ PrefixShape(ex.payload)) =>
               ex.res = Raised("RedditDownloadError")

\* ============================================================ link handlers
\* One chat message going through the dispatcher of main._build_dispatcher
\* (routers base, tiktok, twitter, in this order) and the handler that takes
\* it.  A text is a sequence of whitespace-separated words, a word a sequence
\* of pieces.  The record lives in tg.
MaxWords == 3

TikTokLinkA == <<"https://", "vm.", "tiktok.com/", "ZM1">>
TikTokLinkB == <<"tiktok.com/", "@u/video/2", ".">>
TweetLinkA == <<"https://", "x.com/", "u/status/1">>
TweetLinkB == <<"http://", "www.", "twitter.com/", "u/status/2", ")">>
RedditLinkA == <<"https://", "redd.it/", "abc123">>

ChatWords == {<<"hello">>, <<"/help">>, TikTokLinkA, TikTokLinkB, TweetLinkA, TweetLinkB, RedditLinkA}

\* Message.text / Message.caption: a photo message carries its words in
\* caption.  A field that is None is the empty sequence here: None and "" are
\* both falsy in the only expression that reads them.
ChatMessages ==
    {[text |-> t, caption |-> <<>>] : t \in SeqsUpTo(ChatWords, MaxWords)}
    \cup {[text |-> <<>>, caption |-> c] : c \in SeqsUpTo(ChatWords, 1)}

\* no match of a pattern, and the None of an _extract_*_url
NoUrl == <<>>

\* message.text or message.caption or ""
MessageText(message) ==
    IF message.text # <<>> THEN message.text
    ELSE IF message.caption # <<>> THEN message.caption
    ELSE <<>>

TikTokHosts == {"tiktok.com/"}
TwitterHosts == {"twitter.com/", "x.com/"}

\* where a match of (?:https?://)?<subdomains><host>/[^\s]+ starts in a word
\* whose host piece is at h: the optional subdomain pieces and the optional
\* scheme before the host are taken when they are there
RECURSIVE MatchStart(_, _, _, _)
MatchStart(word, h, subs, many) ==
    IF h > 1 /\ word[h - 1] \in subs
    THEN IF many THEN MatchStart(word, h - 1, subs, many)
         ELSE IF h > 2 /\ word[h - 2] \in Schemes THEN h - 2 ELSE h - 1
    ELSE IF h > 1 /\ word[h - 1] \in Schemes THEN h - 1
    ELSE h

\* the match of the pattern in one word, NoUrl when it has none: the host
\* must be followed by at least one more character of the word
WordMatch(word, hosts, subs, many) ==
    LET hs == {h \in 1..(Len(word) - 1) : word[h] \in hosts}
    IN  IF hs = {} THEN NoUrl
        ELSE LET h == CHOOSE x \in hs : \A y \in hs : x <= y
             IN  SubSeq(word, MatchStart(word, h, subs, many), Len(word))

\* <pattern>.search(text): the match in the first word that has one
RECURSIVE UrlSearch(_, _, _, _)
UrlSearch(text, hosts, subs, many) ==
    IF text = <<>> THEN NoUrl
    ELSE IF WordMatch(Head(text), hosts, subs, many) # NoUrl
         THEN WordMatch(Head(text), hosts, subs, many)
         ELSE UrlSearch(Tail(text), hosts, subs, many)

\* raw_url.rstrip(").,!?")
RECURSIVE RStripPunct(_)
RStripPunct(url) ==
    IF url # <<>> /\ url[Len(url)] \in {")", ".", ",", "!", "?"}
    THEN RStripPunct(SubSeq(url, 1, Len(url) - 1))
    ELSE url

\* the tail of _extract_tiktok_url / _extract_twitter_url after the search
CleanUrl(raw_url) ==
    LET cleaned == RStripPunct(raw_url)
    IN  IF cleaned # <<>> /\ cleaned[1] \in {"http://", "https://"} THEN cleaned
        ELSE <<"https://">> \o cleaned

ExtractTikTokUrl(message) ==
    LET m == UrlSearch(MessageText(message), TikTokHosts, {"vm.", "www."}, TRUE)
    IN  IF m = NoUrl THEN NoUrl ELSE CleanUrl(m)

ExtractTwitterUrl(message) ==
    LET m == UrlSearch(MessageText(message), TwitterHosts, {"www."}, FALSE)
    IN  IF m = NoUrl THEN NoUrl ELSE CleanUrl(m)

\* the commands of the base router: the command is the first word of the text
IsCommand(message) ==
    message.text # <<>> /\ message.text[1] \in {<<"/help">>, <<"/start">>}

\* the routers are asked in the order they were included; the first handler
\* whose filter accepts the message gets it and no other handler is asked
RouteOf(message) ==
    IF IsCommand(message) THEN [handler |-> "base", url |-> NoUrl]
    ELSE IF ExtractTikTokUrl(message) # NoUrl
         THEN [handler |-> "tiktok", url |-> ExtractTikTokUrl(message)]
    ELSE IF ExtractTwitterUrl(message) # NoUrl
         THEN [handler |-> "twitter", url |-> ExtractTwitterUrl(message)]
    ELSE [handler |-> "none", url |-> NoUrl]

\* an update arrives and the dispatcher picks the handler
ChatDispatch ==
    /\ tg.k = "idle"
    /\ \E message \in ChatMessages :
           LET route == RouteOf(message)
           IN  tg' = [k |-> "chat", message |-> message, handler |-> route.handler,
                      url |-> route.url, fetched |-> <<>>, out |-> <<>>,
                      pc |-> IF route.handler \in {"tiktok", "twitter"} THEN "status"
                             ELSE IF route.handler = "base" THEN "command"
                             ELSE "done"]
    /\ UNCHANGED <<tokenVars, album, ex>>

\* handle_help / handle_start: one answer
ChatCommand ==
    /\ tg.k = "chat" /\ tg.pc = "command"
    /\ tg' = [tg EXCEPT !.out = Append(@, "answer"), !.pc = "done"]
    /\ UNCHANGED <<tokenVars, album, ex>>

\* status = await message.reply(...)
ChatStatus ==
    /\ tg.k = "chat" /\ tg.pc = "status"
    /\ tg' = [tg EXCEPT !.out = Append(@, "status"), !.pc = "fetch"]
    /\ UNCHANGED <<tokenVars, album, ex>>

\* downloader.fetch_asset(url) and the sending of the asset
ChatFetchOk ==
    /\ tg.k = "chat" /\ tg.pc = "fetch"
    /\ tg' = [tg EXCEPT !.fetched = Append(@, tg.url), !.out = Append(@, "media"),
                        !.pc = "finally"]
    /\ UNCHANGED <<tokenVars, album, ex>>

\* fetch_asset or the sending raises: the typed error and any other exception
\* end in one reply
ChatFetchFail ==
    /\ tg.k = "chat" /\ tg.pc = "fetch"
    /\ tg' = [tg EXCEPT !.fetched = Append(@, tg.url), !.out = Append(@, "error"),
                        !.pc = "finally"]
    /\ UNCHANGED <<tokenVars, album, ex>>

\* finally: _safe_delete(status); the handler returns
ChatFinally ==
    /\ tg.k = "chat" /\ tg.pc = "finally"
    /\ tg' = [tg EXCEPT !.out = Append(@, "delete_status"), !.pc = "done"]
    /\ UNCHANGED <<tokenVars, album, ex>>

ChatNext ==
    \/ ChatDispatch
    \/ ChatCommand
    \/ ChatStatus
    \/ ChatFetchOk
    \/ ChatFetchFail
    \/ ChatFinally

SpecChat == InitTelegram /\ [][ChatNext]_vars

\* the supported links of a text, cleaned, in the order they appear
IsSupportedLink(word) ==
    \E i \in 1..(Len(word) - 1) : word[i] \in {"tiktok.com/", "twitter.com/", "x.com/", "redd.it/"}

RECURSIVE SupportedLinks(_)
SupportedLinks(text) ==
    IF text = <<>> THEN <<>>
    ELSE (IF IsSupportedLink(Head(text)) THEN <<CleanUrl(Head(text))>> ELSE <<>>)
         \o SupportedLinks(Tail(text))

\* C22: when the handling of a chat message that is not a command is over,
\* the bot has processed every supported link of the message, one after
\* another in the order in which they appear.
C22_AllLinksInOrder ==
    (tg.k = "chat" /\ tg.pc = "done" /\ ~IsCommand(tg.message)) =>
        tg.fetched = SupportedLinks(MessageText(tg.message))

\* ================================================================= fetchers
\* What each downloader makes of the answer of its upstream: the data API of
\* TwitterDownloader.fetch_asset and of RedditDownloader._request_with_token
\* (with a token at hand), and yt_dlp under TikTokDownloader._extract_info.
\* The call and its result live in ex.
ApiStatuses == {200, 400, 404, 429, 500, 503}

NetworkError == [k |-> "network", status |-> 0, body |-> JNull]

Response(status, body) == [k |-> "response", status |-> status, body |-> body]

\* a body that is not JSON: response.json() raises ValueError
NotJson == [t |-> "notjson"]

Words(w) == JStr(<<w>>)

ErrorBodies ==
    {NotJson, JNull, JList(<<>>), Words("oops"), Obj(<<>>),
     Obj(<<<<"detail", Words("No tweet")>>>>),
     Obj(<<<<"detail", Words(" ")>>, <<"message", Words("busy")>>>>),
     Obj(<<<<"error", JNum(500)>>>>)}

Failed(e, m, status, text) == [k |-> "raise", e |-> e, m |-> m, status |-> status, text |-> text]

Fetched(res) == [k |-> "ok", e |-> None, m |-> res.k, status |-> 200, text |-> <<>>]

\* TwitterDownloader._build_error_message(response)
BuildErrorMessage(response) ==
    LET data == response.body
        texts == SelectSeq(<<"detail", "message", "error">>,
                           LAMBDA key : IsStr(Get(data, key)) /\ Strip(Get(data, key).s) # <<>>)
    IN  IF data = NotJson
        THEN Failed("TwitterDownloadError", "api_error", response.status, <<>>)
        ELSE IF ~IsMap(data)
        THEN Failed("AttributeError", "none", response.status, <<>>)
        ELSE IF texts # <<>>
        THEN Failed("TwitterDownloadError", "body_text", 0, Strip(Get(data, Head(texts)).s))
        ELSE Failed("TwitterDownloadError", "api_error", response.status, <<>>)

\* TwitterDownloader.fetch_asset from the answer of client.get on
TwitterFetch(response) ==
    IF response.k = "network"
    THEN Failed("TwitterDownloadError", "unreachable", 0, <<>>)
    ELSE IF RaiseForStatus(response.status) # "ok" THEN BuildErrorMessage(response)
    ELSE IF response.body = NotJson
    THEN Failed("TwitterDownloadError", "unexpected", 0, <<>>)
    ELSE IF TwitterParsePayload(response.body).k = "raise"
    THEN Failed(TwitterParsePayload(response.body).e, "no_media", 0, <<>>)
    ELSE Fetched(TwitterParsePayload(response.body))

\* RedditDownloader._request_with_token: first is the answer to the first
\* _authorized_get, second the answer to the one that follows a 401
RedditRequest(first, second) ==
    LET final == IF first.k = "response" /\ first.status = 401 THEN second ELSE first
    IN  IF first.k = "network" \/ final.k = "network"
        THEN Failed("RedditDownloadError", "unreachable", 0, <<>>)
        ELSE IF RaiseForStatus(final.status) # "ok"
        THEN Failed("HTTPStatusError", "none", final.status, <<>>)
        ELSE [k |-> "ok", e |-> None, m |-> "response", status |-> final.status, text |-> <<>>]

\* what yt_dlp can answer: the info dict, or DownloadError / ExtractorError
\* with a text; status is the HTTP status the text reports, 0 when it
\* reports none
DownloadErrors ==
    {[k |-> "DownloadError", status |-> 500,
      text |-> <<"ERROR: ", "HTTP Error ", "500", ": ", "Internal Server Error">>],
     [k |-> "DownloadError", status |-> 503,
      text |-> <<"ERROR: ", "HTTP Error ", "503", ": ", "Service Unavailable">>],
     [k |-> "DownloadError", status |-> 404,
      text |-> <<"ERROR: ", "HTTP Error ", "404", ": ", "Not Found">>],
     [k |-> "DownloadError", status |-> 403,
      text |-> <<"ERROR: ", "HTTP Error ", "403", ": ", "Forbidden">>],
     [k |-> "DownloadError", status |-> 0, text |-> <<"ERROR: ", "The read operation ", "timed out">>],
     [k |-> "DownloadError", status |-> 0, text |-> <<"ERROR: ", "This post is ", "private">>],
     [k |-> "ExtractorError", status |-> 0, text |-> <<"Unsupported URL">>],
     [k |-> "ExtractorError", status |-> 0, text |-> <<>>]}

\* TikTokDownloader._translate_download_error(exc)
TranslateDownloadError(text) ==
    IF Contains(text, "timed out") THEN "timeout"
    ELSE IF Contains(text, "404") \/ Contains(text, "Not Found") THEN "not_found"
    ELSE IF Contains(text, "private") THEN "private"
    ELSE "rejected"

\* TikTokDownloader._extract_info when yt_dlp raises
ExtractInfoFails(raised) ==
    IF raised.k = "DownloadError"
    THEN Failed("TikTokDownloadError", TranslateDownloadError(raised.text), 0, <<>>)
    ELSE Failed("TikTokDownloadError", IF raised.text # <<>> THEN "extractor_text" ELSE "default",
                0, raised.text)

Upstream(platform, first, second) ==
    [k |-> "returned", call |-> platform, first |-> first, second |-> second,
     res |-> CASE platform = "twitter" -> TwitterFetch(first)
               [] platform = "reddit" -> RedditRequest(first, second)
               [] OTHER -> ExtractInfoFails(first)]

TwitterFetchCall ==
    /\ ex.k = "idle"
    /\ \/ ex' = Upstream("twitter", NetworkError, NetworkError)
       \/ \E s \in ApiStatuses \ {200}, b \in ErrorBodies :
              ex' = Upstream("twitter", Response(s, b), NetworkError)
       \/ \E b \in {NotJson} \cup PhotoTweets \cup NoMediaTweets :
              ex' = Upstream("twitter", Response(200, b), NetworkError)
    /\ UNCHANGED <<tokenVars, album, tg>>

RedditRequestCall ==
    /\ ex.k = "idle"
    /\ \E first, second \in {NetworkError} \cup {Response(s, JNull) : s \in ApiStatuses \cup {401}} :
           /\ (first.k = "response" /\ first.status = 401) \/ second = NetworkError
           /\ ex' = Upstream("reddit", first, second)
    /\ UNCHANGED <<tokenVars, album, tg>>

TikTokExtractInfoCall ==
    /\ ex.k = "idle"
    /\ \E raised \in DownloadErrors : ex' = Upstream("tiktok", raised, NetworkError)
    /\ UNCHANGED <<tokenVars, album, tg>>

FetchNext ==
    \/ TwitterFetchCall
    \/ RedditRequestCall
    \/ TikTokExtractInfoCall

SpecFetch == InitExtract /\ [][FetchNext]_vars

\* the HTTP status the upstream finally answered with, 0 when there is none
FinalStatus ==
    IF ex.call = "reddit" /\ ex.first.k = "response" /\ ex.first.status = 401
    THEN ex.second.status
    ELSE ex.first.status

PlatformError ==
    CASE ex.call = "twitter" -> "TwitterDownloadError"
      [] ex.call = "reddit" -> "RedditDownloadError"
      [] OTHER -> "TikTokDownloadError"

\* C23: every fetcher answers a non-2xx status of its upstream with the typed
\* error of its platform, with the transient message naming the status for a
\* 5xx and the rejected message for any other status; a network failure gives
\* the typed error with the network message; no other exception is raised.
C23_ClassifiedTypedErrors ==
    ex.k = "returned" =>
        /\ ex.res.k = "raise" => ex.res.e = PlatformError
        /\ (FinalStatus # 0 /\ FinalStatus \notin 200..299) =>
               /\ ex.res.k = "raise"
               /\ FinalStatus >= 500 => (ex.res.m = "transient" /\ ex.res.status = FinalStatus)
               /\ FinalStatus < 500 => ex.res.m = "rejected"
        /\ (FinalStatus = 0 /\ ex.call # "tiktok") =>
               (ex.res.k = "raise" /\ ex.res.m = "unreachable")

====
